---- MODULE Spec2Model ----
(***************************************************************************)
(* Property-Search: the data aggregation layer.                            *)
(*                                                                         *)
(*   utils/data_fetcher.py        make_request                             *)
(*   services/location_service.py get_location_data                        *)
(*   services/flood_service.py    get_flood_data, point_in_polygon,        *)
(*                                check_point_in_flood_zones,              *)
(*                                get_flood_risk_description               *)
(*   services/property_service.py get_uk_house_price_index                 *)
(*                                                                         *)
(* Every function is stateless, so each one is modelled by its own         *)
(* specification (SpecRequest, SpecLocation, ...) over its own variables;  *)
(* the variables of the other functions stay at their idle value.          *)
(***************************************************************************)
EXTENDS Integers, Sequences, FiniteSets, TLC

VARIABLES
    mr_pc,        \* make_request: "off" | "loop" | "done"
    mr_max,       \* argument max_retries
    mr_delay,     \* argument retry_delay
    mr_attempt,   \* the for loop's variable `attempt`
    mr_log,       \* the I/O the call has done: GET requests and sleeps, in order
    mr_hist,      \* what each requests.get so far produced
    mr_ret        \* the value returned (or the exception raised)

mrVars == <<mr_pc, mr_max, mr_delay, mr_attempt, mr_log, mr_hist, mr_ret>>

VARIABLES
    loc_call,     \* get_location_data: the postcode, the URL requested, the answer
    loc_ret       \* the value it returned (or the exception it raised)

locVars == <<loc_call, loc_ret>>

VARIABLES
    fr_call,      \* get_flood_risk_description: its arguments
    fr_obs,       \* what check_point_in_flood_zones found, and how many features it tested
    fr_ret        \* the description returned

frVars == <<fr_call, fr_obs, fr_ret>>

VARIABLES
    fd_pc,        \* get_flood_data: "off" | "paging" | "paged" | "done"
    fd_catalogue, \* the kinds of feature the zone provider holds
    fd_collection,\* the features, in order, of a provider that serves pages by offset
    fd_offset,    \* the local `offset`
    fd_all,       \* the local `all_features`
    fd_reqs,      \* the zone-page requests sent: their offset and limit
    fd_pages,     \* what make_request returned for each of them
    fd_subcalls,  \* what make_request returned for warnings and stations
    fd_ret        \* the value returned

fdVars == <<fd_pc, fd_catalogue, fd_collection, fd_offset, fd_all, fd_reqs, fd_pages, fd_subcalls, fd_ret>>

VARIABLES
    pr_pc,        \* get_uk_house_price_index: "off" | "query" | "rows" | "done"
    pr_channel,   \* the property-type channel the provider fills besides Average
    pr_answer,    \* what requests.post produced, once it has
    pr_rows,      \* the rows of hpi_data the loop has been through
    pr_data,      \* the local `price_data`
    pr_log,       \* for the last row: each candidate entry and what became of it
    pr_ret        \* the value returned

prVars == <<pr_pc, pr_channel, pr_answer, pr_rows, pr_data, pr_log, pr_ret>>

VARIABLES
    cr_pc,        \* crime_service: "off" | "called" | "done"
    cr_call,      \* the function called, its arguments and datetime.now()
    cr_reqs,      \* the params of each requests.get so far, in order
    cr_answers,   \* the kind of answer each request got, in order
    cr_acc,       \* the local `all_crimes` (a list) or `monthly_data` (a dict)
    cr_ret        \* the value returned, or the exception raised

crVars == <<cr_pc, cr_call, cr_reqs, cr_answers, cr_acc, cr_ret>>

VARIABLES
    pip_call,     \* point_in_polygon: idle, or the point and the ring it was called on
    pip_trace,    \* for each turn of its loop: the edge and whether `inside` toggled
    pip_ret       \* the value returned

pipVars == <<pip_call, pip_trace, pip_ret>>

vars == <<mrVars, locVars, frVars, fdVars, prVars, crVars, pipVars>>

\* what a step of one function leaves alone: the variables of the others
mrOthers == <<locVars, frVars, fdVars, prVars, crVars, pipVars>>

locOthers == <<mrVars, frVars, fdVars, prVars, crVars, pipVars>>

frOthers == <<mrVars, locVars, fdVars, prVars, crVars, pipVars>>

fdOthers == <<mrVars, locVars, frVars, prVars, crVars, pipVars>>

prOthers == <<mrVars, locVars, frVars, fdVars, crVars, pipVars>>

crOthers == <<mrVars, locVars, frVars, fdVars, prVars, pipVars>>

pipOthers == <<mrVars, locVars, frVars, fdVars, prVars, crVars>>

----------------------------------------------------------------------------
(* Generic helpers *)

SeqsUpTo(S, n) == UNION {[1..k -> S] : k \in 0..n}

Last(s) == s[Len(s)]

\* number of elements e of the sequence s with Test(e)
CountIf(s, Test(_)) == Cardinality({i \in 1..Len(s) : Test(s[i])})

----------------------------------------------------------------------------
(* utils/data_fetcher.py : make_request *)

MaxRetries == 3          \* largest max_retries argument explored

RetryDelays == {1, 2}    \* retry_delay arguments explored

\* Retry-After header of a 429 response: absent, a number of seconds, or an
\* HTTP date (which int() rejects)
RetryAfterHeaders == {"absent", "5", "date"}

OtherStatusCodes == {404, 500}

ResponseTexts == {"", "Not Found"}

JsonBodies == {"payload"}

\* what one requests.get(url, ..., timeout=10) can produce
Outcomes ==
         {[kind |-> "response", code |-> 200, json |-> j] : j \in JsonBodies}
    \cup {[kind |-> "response", code |-> 429, retry_after |-> h] : h \in RetryAfterHeaders}
    \cup {[kind |-> "response", code |-> c, text |-> t] :
              c \in OtherStatusCodes, t \in ResponseTexts}
    \cup {[kind |-> "timeout"], [kind |-> "exception"]}

NoReturn == [tag |-> "none"]

ErrTimedOut == [tag |-> "error", error |-> "Request timed out"]

ErrMaxRetries == [tag |-> "error", error |-> "Maximum retry attempts reached"]

ErrRequestFailed == [tag |-> "error", error |-> "Request failed: <exception>"]

ErrStatus(code, text) ==
    [tag |-> "error", error |-> "Request failed with status code", code |-> code,
     details |-> IF text # "" THEN text ELSE "No details available"]

EvGet == [ev |-> "GET"]

EvSleep(secs) == [ev |-> "sleep", secs |-> secs]

\* int(response.headers.get('Retry-After', retry_delay * 2)) for a header int() accepts
RetryAfterSeconds(header, retry_delay) ==
    IF header = "absent" THEN retry_delay * 2 ELSE 5

RequestOff ==
    /\ mr_pc = "off" /\ mr_max = 0 /\ mr_delay = 0 /\ mr_attempt = 0
    /\ mr_log = <<>> /\ mr_hist = <<>> /\ mr_ret = NoReturn

RequestStart ==
    /\ mr_pc = "loop"
    /\ mr_max \in 0..MaxRetries
    /\ mr_delay \in RetryDelays
    /\ mr_attempt = 0
    /\ mr_log = <<>>
    /\ mr_hist = <<>>
    /\ mr_ret = NoReturn

\* one iteration of `for attempt in range(max_retries)` begins: the GET is sent
Iterating == mr_pc = "loop" /\ mr_attempt < mr_max

Return(value) ==
    /\ mr_pc' = "done"
    /\ mr_ret' = value

\* status 200: return response.json()
Status200(o) ==
    /\ Iterating
    /\ UNCHANGED mrOthers
    /\ o.kind = "response" /\ o.code = 200
    /\ mr_hist' = Append(mr_hist, o)
    /\ mr_log' = Append(mr_log, EvGet)
    /\ Return([tag |-> "json", value |-> o.json])
    /\ UNCHANGED <<mr_max, mr_delay, mr_attempt>>

\* mutant: the rate-limit branch retries without moving on to the next attempt
RateLimited_NotCounted(o) ==
    /\ Iterating
    /\ UNCHANGED mrOthers
    /\ o.kind = "response" /\ o.code = 429 /\ o.retry_after # "date"
    /\ mr_hist' = Append(mr_hist, o)
    /\ mr_log' = mr_log \o <<EvGet, EvSleep(RetryAfterSeconds(o.retry_after, mr_delay))>>
    /\ UNCHANGED <<mr_max, mr_delay, mr_attempt, mr_pc, mr_ret>>

\* status 429: sleep Retry-After (or retry_delay * 2) and `continue`: the for
\* loop moves on to its next attempt
RateLimited(o) ==
    /\ Iterating
    /\ UNCHANGED mrOthers
    /\ o.kind = "response" /\ o.code = 429 /\ o.retry_after # "date"
    /\ mr_hist' = Append(mr_hist, o)
    /\ mr_log' = mr_log \o <<EvGet, EvSleep(RetryAfterSeconds(o.retry_after, mr_delay))>>
    /\ mr_attempt' = mr_attempt + 1
    /\ UNCHANGED <<mr_max, mr_delay, mr_pc, mr_ret>>

\* status 429 whose Retry-After is not a number: int() raises ValueError, which
\* neither except clause catches
RateLimitedBadHeader(o) ==
    /\ Iterating
    /\ UNCHANGED mrOthers
    /\ o.kind = "response" /\ o.code = 429 /\ o.retry_after = "date"
    /\ mr_hist' = Append(mr_hist, o)
    /\ mr_log' = Append(mr_log, EvGet)
    /\ Return([tag |-> "raised", exception |-> "ValueError"])
    /\ UNCHANGED <<mr_max, mr_delay, mr_attempt>>

\* mutant: another status is slept on and retried like a rate limit
OtherStatus_Retried(o) ==
    /\ Iterating
    /\ UNCHANGED mrOthers
    /\ o.kind = "response" /\ o.code \notin {200, 429}
    /\ mr_hist' = Append(mr_hist, o)
    /\ mr_log' = mr_log \o <<EvGet, EvSleep(mr_delay)>>
    /\ mr_attempt' = mr_attempt + 1
    /\ UNCHANGED <<mr_max, mr_delay, mr_pc, mr_ret>>

\* any other status: return the error carrying the status code and the text
OtherStatus(o) ==
    /\ Iterating
    /\ UNCHANGED mrOthers
    /\ o.kind = "response" /\ o.code \notin {200, 429}
    /\ mr_hist' = Append(mr_hist, o)
    /\ mr_log' = Append(mr_log, EvGet)
    /\ Return(ErrStatus(o.code, o.text))
    /\ UNCHANGED <<mr_max, mr_delay, mr_attempt>>

\* mutant: the timeout handler sleeps and retries whatever the attempt, so the
\* last timeout falls out of the loop
TimedOut_AlwaysSleeps(o) ==
    /\ Iterating
    /\ UNCHANGED mrOthers
    /\ o.kind = "timeout"
    /\ mr_hist' = Append(mr_hist, o)
    /\ mr_log' = mr_log \o <<EvGet, EvSleep(mr_delay)>>
    /\ mr_attempt' = mr_attempt + 1
    /\ UNCHANGED <<mr_max, mr_delay, mr_pc, mr_ret>>

\* requests.exceptions.Timeout: sleep retry_delay and continue, but on the
\* last attempt return 'Request timed out'
TimedOut(o) ==
    /\ Iterating
    /\ UNCHANGED mrOthers
    /\ o.kind = "timeout"
    /\ mr_hist' = Append(mr_hist, o)
    /\ IF mr_attempt < mr_max - 1
       THEN /\ mr_log' = mr_log \o <<EvGet, EvSleep(mr_delay)>>
            /\ mr_attempt' = mr_attempt + 1
            /\ UNCHANGED <<mr_pc, mr_ret>>
       ELSE /\ mr_log' = Append(mr_log, EvGet)
            /\ Return(ErrTimedOut)
            /\ UNCHANGED mr_attempt
    /\ UNCHANGED <<mr_max, mr_delay>>

\* any other requests.exceptions.RequestException
RequestFailed(o) ==
    /\ Iterating
    /\ UNCHANGED mrOthers
    /\ o.kind = "exception"
    /\ mr_hist' = Append(mr_hist, o)
    /\ mr_log' = Append(mr_log, EvGet)
    /\ Return(ErrRequestFailed)
    /\ UNCHANGED <<mr_max, mr_delay, mr_attempt>>

\* range(max_retries) is exhausted: the statement after the loop
RetriesExhausted ==
    /\ mr_pc = "loop"
    /\ mr_attempt >= mr_max
    /\ UNCHANGED mrOthers
    /\ Return(ErrMaxRetries)
    /\ UNCHANGED <<mr_max, mr_delay, mr_attempt, mr_log, mr_hist>>

RequestNext ==
    \/ \E o \in Outcomes : Status200(o)
    \/ \E o \in Outcomes : RateLimited(o)
    \/ \E o \in Outcomes : RateLimitedBadHeader(o)
    \/ \E o \in Outcomes : OtherStatus(o)
    \/ \E o \in Outcomes : TimedOut(o)
    \/ \E o \in Outcomes : RequestFailed(o)
    \/ RetriesExhausted

\* SpecRequest below: one make_request call, from its first attempt to its return

----------------------------------------------------------------------------
(* Observations of a make_request call *)

IsGet(e) == e.ev = "GET"

IsSleep(e) == e.ev = "sleep"

IsTimeout(o) == o.kind = "timeout"

Is429(o) == o.kind = "response" /\ o.code = 429

NumGets == CountIf(mr_log, IsGet)

NumSleeps == CountIf(mr_log, IsSleep)

AllTimeouts == \A i \in 1..Len(mr_hist) : IsTimeout(mr_hist[i])

\* GET, sleep d, GET, sleep d, ..., GET  with n GETs
RECURSIVE Alternating(_, _)
Alternating(n, d) ==
    IF n = 0 THEN <<>>
    ELSE IF n = 1 THEN <<EvGet>>
    ELSE <<EvGet, EvSleep(d)>> \o Alternating(n - 1, d)

NumTimeouts == CountIf(mr_hist, IsTimeout)

Num429 == CountIf(mr_hist, Is429)

\* attempts of range(max_retries) not yet begun
AttemptsLeft == mr_max - mr_attempt

----------------------------------------------------------------------------
(* Claims about make_request *)

\* C1: when every attempt times out, the call does exactly max_retries GETs
\* with one sleep of retry_delay between consecutive GETs and none after the
\* last, and returns 'Request timed out'; after a timeout on an attempt that is
\* not the last one the call has not returned.
C1_TimeoutsExhaustRetries ==
    /\ (mr_pc = "done" /\ mr_hist # <<>> /\ AllTimeouts) =>
          /\ mr_log = Alternating(mr_max, mr_delay)
          /\ NumGets = mr_max
          /\ mr_ret = ErrTimedOut
    /\ (mr_hist # <<>> /\ IsTimeout(Last(mr_hist)) /\ Len(mr_hist) < mr_max) =>
          /\ mr_pc = "loop"
          /\ mr_ret = NoReturn

C1_Witness ==
    /\ mr_pc = "done" /\ AllTimeouts /\ mr_max = 3
    /\ Len(mr_hist) = 3 /\ NumSleeps = 2 /\ mr_ret = ErrTimedOut

C3_OtherStatusEndsCall ==
    \A i \in 1..Len(mr_hist) :
        (mr_hist[i].kind = "response" /\ mr_hist[i].code \notin {200, 429}) =>
            /\ i = Len(mr_hist)
            /\ mr_pc = "done"
            /\ Last(mr_log) = EvGet
            /\ NumGets = i
            /\ mr_ret.tag = "error"
            /\ mr_ret.error = "Request failed with status code"
            /\ mr_ret.code = mr_hist[i].code
            /\ mr_hist[i].text # "" => mr_ret.details = mr_hist[i].text
            /\ mr_hist[i].text = "" => mr_ret.details = "No details available"

C3_Witness ==
    /\ mr_pc = "done" /\ Len(mr_hist) = 1 /\ mr_max = 3
    /\ mr_hist[1].kind = "response" /\ mr_hist[1].code = 500
    /\ mr_ret = ErrStatus(500, "Not Found")

\* C27: whatever the outcomes of its attempts, the call sends at most
\* max_retries GETs, never begins an attempt beyond range(max_retries), and
\* ends by returning a value (the JSON body or an error dictionary).
C27_AtMostMaxRetriesThenReturns ==
    /\ NumGets <= mr_max
    /\ mr_attempt <= mr_max
    /\ mr_pc = "loop" => mr_ret = NoReturn
    /\ mr_pc = "done" => mr_ret.tag \in {"json", "error"}

\* C28: the finished call has returned 'Maximum retry attempts reached'
\* exactly when max_retries is 0 or the last attempt of range(max_retries)
\* received a 429, and in the latter case the last thing before the return
\* was a sleep.
C28_MaxRetriesErrorIffLast429 ==
    /\ mr_pc = "done" =>
           (mr_ret = ErrMaxRetries
                <=> (mr_max = 0 \/ (Len(mr_hist) = mr_max /\ Is429(Last(mr_hist)))))
    /\ (mr_ret = ErrMaxRetries /\ mr_max > 0) => IsSleep(Last(mr_log))

----------------------------------------------------------------------------
(* JSON values as Python sees them: None, a list, or a dict (a function from
   its keys to values). A value of a dict is a string; "None" stands for a
   JSON null. *)

None == "None"

JNull == [t |-> "null"]

JList == [t |-> "list"]

JDict(d) == [t |-> "dict", d |-> d]

\* dict.get(key): the value, or None when the key is missing
Get(d, key) == IF key \in DOMAIN d THEN d[key] ELSE None

\* dict.get(key, default)
GetOr(d, key, default) == IF key \in DOMAIN d THEN d[key] ELSE default

\* the dicts whose keys are among `keys`, each key k with a value of Vals[k]
DictsOver(keys, Vals) ==
    UNION {{d \in [S -> UNION {Vals[k] : k \in keys}] : \A k \in S : d[k] \in Vals[k]} :
              S \in SUBSET keys}

\* what make_request can hand back when the provider's JSON bodies are `bodies`
MakeRequestResults(bodies) ==
         {[tag |-> "json", value |-> b] : b \in bodies}
    \cup {ErrTimedOut, ErrMaxRetries, ErrRequestFailed, ErrStatus(404, "Not Found")}
    \cup {[tag |-> "raised", exception |-> "ValueError"]}

ErrFailedToFetch == [tag |-> "error", error |-> "Failed to fetch data: <exception>"]

\* utils/data_fetcher.py : get_json_data -- make_request's value, or an error
\* value in place of whatever make_request raised
get_json_data(result) ==
    IF result.tag = "raised" THEN ErrFailedToFetch ELSE result

\* Python's `key in value` for a value that came back from make_request:
\* "raises" for None (and when the call itself raised), "no" for a list (of
\* non-strings), key lookup for a dict
KeyIn(key, r) ==
    IF r.tag = "raised" THEN "raises"
    ELSE IF r.tag = "error" THEN IF key = "error" THEN "yes" ELSE "no"
    ELSE IF r.value.t = "null" THEN "raises"
    ELSE IF r.value.t = "list" THEN "no"
    ELSE IF key \in DOMAIN r.value.d THEN "yes" ELSE "no"

----------------------------------------------------------------------------
(* services/location_service.py : get_location_data *)

MaxPostcodeLen == 3      \* longest postcode argument explored

PostcodeChars == {"A", "1", " "}

Postcodes == SeqsUpTo(PostcodeChars, MaxPostcodeLen)

RECURSIVE RemoveSpaces(_)
\* postcode.replace(" ", "")
RemoveSpaces(p) ==
    IF p = <<>> THEN <<>>
    ELSE IF p[1] = " " THEN RemoveSpaces(Tail(p))
    ELSE <<p[1]>> \o RemoveSpaces(Tail(p))

RECURSIVE FirstToken(_)
\* postcode.split(" ")[0]
FirstToken(p) ==
    IF p = <<>> \/ p[1] = " " THEN <<>>
    ELSE <<p[1]>> \o FirstToken(Tail(p))

\* postcode.split(" ")[0] if " " in postcode else postcode
Outcode(p) ==
    IF \E i \in 1..Len(p) : p[i] = " " THEN FirstToken(p) ELSE p

LocationKeys == {"postcode", "latitude", "longitude", "region", "codes"}

LocationVals ==
    [k \in LocationKeys |->
        CASE k = "postcode" -> {"A1 1AA"}
          [] k = "latitude" -> {None, "51.5"}
          [] k = "longitude" -> {None, "-0.1"}
          [] k = "region" -> {"London"}
          [] k = "codes" -> {"{codes}"}]

\* the `result` member of the provider's envelope: null or a dict
LocationResults ==
    {JNull} \cup {JDict(d) : d \in DictsOver(LocationKeys, LocationVals)}

\* JSON bodies of the postcode provider: an envelope with or without `result`,
\* an object carrying `error`, a list, null
LocationBodies ==
         {JDict([status |-> "200", result |-> r]) : r \in LocationResults}
    \cup {JDict([status |-> "200"]), JDict([status |-> "404", error |-> "Invalid postcode"])}
    \cup {JList, JNull}

ErrUnexpectedFormat == [tag |-> "error", error |-> "Unexpected API response format"]

Raised(exception) == [tag |-> "raised", exception |-> exception]

\* the location_data dict built from `result` (the other administrative
\* fields are copied with result.get exactly as region is)
LocationRecord(postcode, result) ==
    [tag |-> "record",
     postcode |-> GetOr(result, "postcode", postcode),
     outcode |-> Outcode(postcode),
     latitude |-> Get(result, "latitude"),
     longitude |-> Get(result, "longitude"),
     region |-> Get(result, "region"),
     codes |-> GetOr(result, "codes", "{}")]

\* mutant: the envelope is not tested for the key "result"
LocationOf_NoShapeCheck(postcode, response_data) ==
    IF KeyIn("error", response_data) = "raises" THEN Raised("TypeError")
    ELSE IF KeyIn("error", response_data) = "yes" THEN response_data
    ELSE IF KeyIn("result", response_data) = "no" THEN Raised("KeyError")
    ELSE IF response_data.value.d["result"].t # "dict" THEN Raised("AttributeError")
    ELSE LocationRecord(postcode, response_data.value.d["result"].d)

\* the body of get_location_data after the lookup call returned response_data
LocationOf(postcode, response_data) ==
    IF KeyIn("error", response_data) = "raises" THEN Raised("TypeError")
    ELSE IF KeyIn("error", response_data) = "yes" THEN response_data
    ELSE IF KeyIn("result", response_data) = "no" THEN ErrUnexpectedFormat
    ELSE IF response_data.value.d["result"].t # "dict" THEN Raised("AttributeError")
    ELSE LocationRecord(postcode, response_data.value.d["result"].d)

LocationInit ==
    /\ loc_call = [state |-> "idle"]
    /\ loc_ret = NoReturn

LocationOff == LocationInit

get_location_data(postcode, answer) ==
    /\ loc_call' = [state |-> "called", postcode |-> postcode,
                    url |-> RemoveSpaces(postcode), answer |-> answer]
    /\ loc_ret' = LocationOf(postcode, get_json_data(answer))
    /\ UNCHANGED locOthers

\* one call, on any of the postcodes and provider answers explored
LocationNext ==
    /\ loc_call.state = "idle"
    /\ \E p \in Postcodes, a \in MakeRequestResults(LocationBodies) :
           get_location_data(p, a)

----------------------------------------------------------------------------
(* Claims about get_location_data *)

Present(v) == v # None

\* C4: a record returned by get_location_data has latitude and longitude
\* both present or both absent, never exactly one of the two.
C4_NoPartialCoordinate ==
    loc_ret.tag = "record" =>
        (Present(loc_ret.latitude) <=> Present(loc_ret.longitude))

\* the provider answered 200 with a JSON object or list that has neither the
\* key "error" nor the key "result"
EnvelopeWithoutResult(answer) ==
    /\ answer.tag = "json"
    /\ answer.value.t \in {"dict", "list"}
    /\ answer.value.t = "dict" =>
           ("error" \notin DOMAIN answer.value.d /\ "result" \notin DOMAIN answer.value.d)

\* C21: an answer that is a non-error envelope without the key "result" gives
\* the 'Unexpected API response format' error, an error value of the HTTP
\* layer (an exception of it included, as get_json_data reports it) is
\* returned unchanged, and in neither case is a location record returned.
C21_BadShapeAndErrorsGiveNoRecord ==
    loc_call.state = "called" =>
        /\ EnvelopeWithoutResult(loc_call.answer) => loc_ret = ErrUnexpectedFormat
        /\ loc_call.answer.tag = "error" => loc_ret = loc_call.answer
        /\ loc_call.answer.tag = "raised" => loc_ret = ErrFailedToFetch
        /\ (EnvelopeWithoutResult(loc_call.answer)
               \/ loc_call.answer.tag \in {"error", "raised"}) =>
               (loc_ret.tag = "error" /\ loc_ret.tag # "record")

C21_Witness ==
    /\ loc_call.state = "called"
    /\ loc_call.answer = [tag |-> "json", value |-> JDict([status |-> "200"])]
    /\ loc_ret = ErrUnexpectedFormat

----------------------------------------------------------------------------
(* services/flood_service.py : point_in_polygon *)

Min(a, b) == IF a <= b THEN a ELSE b

Max(a, b) == IF a >= b THEN a ELSE b

\* the local `xinters` before its first assignment
XintersUnset == [num |-> 0, den |-> 0, base |-> 0]

\* xinters = (y - p1y) * (p2x - p1x) / (p2y - p1y) + p1x, kept as an exact
\* fraction num/den + base
Xinters(y, p1, p2) ==
    [num |-> (y - p1[2]) * (p2[1] - p1[1]), den |-> p2[2] - p1[2], base |-> p1[1]]

\* x <= xinters
LeqXinters(x, xi) ==
    IF xi.den > 0 THEN (x - xi.base) * xi.den <= xi.num
    ELSE IF xi.den < 0 THEN (x - xi.base) * xi.den >= xi.num
    ELSE FALSE

\* mutant: the test x <= max(p1x, p2x) is left out
PipEdge_NoXBound(point, p1, p2, st) ==
    LET x == point[1]
        y == point[2]
    IN  IF y > Min(p1[2], p2[2]) /\ y <= Max(p1[2], p2[2])
        THEN LET xi == IF p1[2] # p2[2] THEN Xinters(y, p1, p2) ELSE st.xinters
             IN  [inside |-> IF p1[1] = p2[1] \/ LeqXinters(x, xi)
                             THEN ~st.inside ELSE st.inside,
                  xinters |-> xi]
        ELSE st

\* mutant: y has to be strictly below the greater y of the edge
PipEdge_StrictlyBetween(point, p1, p2, st) ==
    LET x == point[1]
        y == point[2]
    IN  IF y > Min(p1[2], p2[2]) /\ y < Max(p1[2], p2[2]) /\ x <= Max(p1[1], p2[1])
        THEN LET xi == IF p1[2] # p2[2] THEN Xinters(y, p1, p2) ELSE st.xinters
             IN  [inside |-> IF p1[1] = p2[1] \/ LeqXinters(x, xi)
                             THEN ~st.inside ELSE st.inside,
                  xinters |-> xi]
        ELSE st

\* the body of the for loop for the edge p1 -> p2; st holds `inside` and `xinters`
PipEdge(point, p1, p2, st) ==
    LET x == point[1]
        y == point[2]
    IN  IF y > Min(p1[2], p2[2]) /\ y <= Max(p1[2], p2[2]) /\ x <= Max(p1[1], p2[1])
        THEN LET xi == IF p1[2] # p2[2] THEN Xinters(y, p1, p2) ELSE st.xinters
             IN  [inside |-> IF p1[1] = p2[1] \/ LeqXinters(x, xi)
                             THEN ~st.inside ELSE st.inside,
                  xinters |-> xi]
        ELSE st

RECURSIVE PipLoop(_, _, _, _, _)
\* for i in range(n + 1): p2 = polygon[i % n]; ...; p1 = p2
PipLoop(point, polygon, i, p1, st) ==
    IF i > Len(polygon) THEN st.inside
    ELSE LET p2 == polygon[(i % Len(polygon)) + 1]
         IN  PipLoop(point, polygon, i + 1, p2, PipEdge(point, p1, p2, st))

point_in_polygon(point, polygon) ==
    PipLoop(point, polygon, 0, polygon[1], [inside |-> FALSE, xinters |-> XintersUnset])

RECURSIVE PipTrace(_, _, _, _, _)
\* the turns of the loop from the i-th on: the edge of each and whether it
\* toggled `inside`
PipTrace(point, polygon, i, p1, st) ==
    IF i > Len(polygon) THEN <<>>
    ELSE LET p2 == polygon[(i % Len(polygon)) + 1]
             after == PipEdge(point, p1, p2, st)
         IN  <<[p1 |-> p1, p2 |-> p2, toggled |-> after.inside # st.inside]>>
                 \o PipTrace(point, polygon, i + 1, p2, after)

MaxCoord == 2            \* ring vertices lie on the grid 0, 10, .., 10 * MaxCoord

GridCoords == {10 * k : k \in 0..MaxCoord}

\* the test points: on the half grid, from 5 below it to 5 above it
TestPoints == {<<5 * i, 5 * j>> : i, j \in (0 - 1)..(2 * MaxCoord + 1)}

\* the rectangle ring in the vertex order of [(0,0),(0,10),(10,10),(10,0)]
Rectangle(x0, x1, y0, y1) == <<<<x0, y0>>, <<x0, y1>>, <<x1, y1>>, <<x1, y0>>>>

\* the same rectangle, its vertices in the other orientation
RectangleReversed(x0, x1, y0, y1) == <<<<x0, y0>>, <<x1, y0>>, <<x1, y1>>, <<x0, y1>>>>

\* axis-aligned rectangle rings on the grid, in both orientations
RectangleRings ==
    UNION {{Rectangle(c[1], c[2], c[3], c[4]), RectangleReversed(c[1], c[2], c[3], c[4])} :
               c \in {c \in GridCoords \X GridCoords \X GridCoords \X GridCoords :
                          c[1] < c[2] /\ c[3] < c[4]}}

\* rings with slanted edges: a triangle, a diamond, and the triangle closed
\* by a repeated first vertex
SlantedRings ==
    {<<<<0, 0>>, <<10, 20>>, <<20, 0>>>>,
     <<<<10, 0>>, <<0, 10>>, <<10, 20>>, <<20, 10>>>>,
     <<<<0, 0>>, <<20, 0>>, <<10, 20>>, <<0, 0>>>>}

TestRings == RectangleRings \cup SlantedRings

PipInit ==
    /\ pip_call = [state |-> "idle"]
    /\ pip_trace = <<>>
    /\ pip_ret = NoReturn

PipOff == PipInit

\* one call of point_in_polygon(point, polygon)
PointTested(point, polygon) ==
    /\ pip_call' = [state |-> "called", point |-> point, polygon |-> polygon]
    /\ pip_trace' = PipTrace(point, polygon, 0, polygon[1],
                             [inside |-> FALSE, xinters |-> XintersUnset])
    /\ pip_ret' = [tag |-> "bool", value |-> point_in_polygon(point, polygon)]
    /\ UNCHANGED pipOthers

PipNext ==
    /\ pip_call.state = "idle"
    /\ \E point \in TestPoints, polygon \in TestRings : PointTested(point, polygon)

----------------------------------------------------------------------------
(* Claims about point_in_polygon *)

\* the least and the greatest of the k-th coordinates of the ring's vertices
Least(ring, k) == CHOOSE v \in {ring[i][k] : i \in 1..Len(ring)} :
                      \A i \in 1..Len(ring) : v <= ring[i][k]

Greatest(ring, k) == CHOOSE v \in {ring[i][k] : i \in 1..Len(ring)} :
                         \A i \in 1..Len(ring) : v >= ring[i][k]

StrictlyInsideExtent(point, ring) ==
    /\ Least(ring, 1) < point[1] /\ point[1] < Greatest(ring, 1)
    /\ Least(ring, 2) < point[2] /\ point[2] < Greatest(ring, 2)

StrictlyOutsideExtent(point, ring) ==
    \/ point[1] < Least(ring, 1) \/ point[1] > Greatest(ring, 1)
    \/ point[2] < Least(ring, 2) \/ point[2] > Greatest(ring, 2)

PipCalled == pip_call.state = "called"

\* C22: for an axis-aligned rectangle ring point_in_polygon is true for every
\* point strictly inside and false for every point strictly outside the
\* ring's extent; (5,5) is inside and (15,15) outside [(0,0),(0,10),(10,10),(10,0)].
C22_RectangleInsideOutside ==
    (PipCalled /\ pip_call.polygon \in RectangleRings) =>
        /\ StrictlyInsideExtent(pip_call.point, pip_call.polygon) => pip_ret.value = TRUE
        /\ StrictlyOutsideExtent(pip_call.point, pip_call.polygon) => pip_ret.value = FALSE
        /\ pip_call.polygon = <<<<0, 0>>, <<0, 10>>, <<10, 10>>, <<10, 0>>>> =>
               /\ pip_call.point = <<5, 5>> => pip_ret.value = TRUE
               /\ pip_call.point = <<15, 15>> => pip_ret.value = FALSE

C22_Witness ==
    /\ PipCalled
    /\ pip_call.polygon = <<<<0, 0>>, <<0, 10>>, <<10, 10>>, <<10, 0>>>>
    /\ pip_call.point = <<5, 5>>
    /\ pip_ret.value = TRUE

\* the test point's x does not exceed the x at which the line through the
\* edge's ends meets the point's y (the edge is not horizontal)
AtOrLeftOfEdge(point, e) ==
    IF e.p2[2] > e.p1[2]
    THEN (point[1] - e.p1[1]) * (e.p2[2] - e.p1[2])
             <= (point[2] - e.p1[2]) * (e.p2[1] - e.p1[1])
    ELSE (point[1] - e.p1[1]) * (e.p2[2] - e.p1[2])
             >= (point[2] - e.p1[2]) * (e.p2[1] - e.p1[1])

LowerY(e) == IF e.p1[2] <= e.p2[2] THEN e.p1[2] ELSE e.p2[2]

UpperY(e) == IF e.p1[2] >= e.p2[2] THEN e.p1[2] ELSE e.p2[2]

\* the loop took a turn for every edge, the one from the last vertex to the
\* first included
TraceCoversRing ==
    /\ Len(pip_trace) = Len(pip_call.polygon) + 1
    /\ \A i \in 1..Len(pip_call.polygon) :
           /\ pip_trace[i + 1].p2 = pip_call.polygon[(i % Len(pip_call.polygon)) + 1]
           /\ pip_trace[i + 1].p1 = pip_call.polygon[i]

\* C23 as stated: an edge toggles `inside` only when the point's y is
\* strictly between the edge's two y-extremes and the point's x does not
\* exceed the edge's x-intercept at that y.
C23_ToggleOnlyStrictlyBetween ==
    PipCalled =>
        /\ TraceCoversRing
        /\ \A i \in 1..Len(pip_trace) :
               pip_trace[i].toggled =>
                   /\ LowerY(pip_trace[i]) < pip_call.point[2]
                   /\ pip_call.point[2] < UpperY(pip_trace[i])
                   /\ AtOrLeftOfEdge(pip_call.point, pip_trace[i])

\* C23 amended: an edge toggles `inside` exactly when the point's y is above
\* the edge's lower y-extreme and not above its upper one (min < y <= max) and
\* the point's x does not exceed the edge's x-intercept at that y.
C23_ToggleOnHalfOpenRange ==
    PipCalled =>
        /\ TraceCoversRing
        /\ \A i \in 1..Len(pip_trace) :
               pip_trace[i].toggled <=>
                   /\ LowerY(pip_trace[i]) < pip_call.point[2]
                   /\ pip_call.point[2] <= UpperY(pip_trace[i])
                   /\ AtOrLeftOfEdge(pip_call.point, pip_trace[i])

C23_Witness ==
    /\ PipCalled
    /\ pip_call.polygon = <<<<0, 0>>, <<10, 20>>, <<20, 0>>>>
    /\ pip_call.point = <<5, 20>>
    /\ pip_call.point[2] = UpperY(pip_trace[2])
    /\ pip_trace[2].toggled
    /\ pip_trace[3].toggled
    /\ pip_ret.value = FALSE

----------------------------------------------------------------------------
(* services/flood_service.py : check_point_in_flood_zones *)

\* feature.get('geometry', {})
EmptyGeometry == [type |-> None]

GeometryOf(feature) ==
    IF "geometry" \in DOMAIN feature THEN feature.geometry ELSE EmptyGeometry

\* mutant: the rings after the first are holes, and a point inside one is outside
ScanRings_HolesExcluded(point, rings) ==
    /\ rings # <<>>
    /\ point_in_polygon(point, rings[1])
    /\ \A i \in 2..Len(rings) : ~point_in_polygon(point, rings[i])

RECURSIVE ScanRings(_, _)
\* for ring in coordinates: if point_in_polygon(point, ring): hit; break
ScanRings(point, rings) ==
    IF rings = <<>> THEN FALSE
    ELSE IF point_in_polygon(point, rings[1]) THEN TRUE
    ELSE ScanRings(point, Tail(rings))

RECURSIVE ScanPolygons(_, _)
\* for polygon in coordinates: for ring in polygon: ... break   (the break
\* leaves the ring loop only, the next polygon is still scanned)
ScanPolygons(point, polygons) ==
    IF polygons = <<>> THEN FALSE
    ELSE IF ScanRings(point, polygons[1]) THEN TRUE
    ELSE ScanPolygons(point, Tail(polygons))

\* the test of one feature: Polygon, MultiPolygon, or any other type (skipped)
ScanFeature(point, feature) ==
    LET geometry == GeometryOf(feature)
    IN  IF geometry.type = "Polygon" THEN ScanRings(point, geometry.coordinates)
        ELSE IF geometry.type = "MultiPolygon" THEN ScanPolygons(point, geometry.coordinates)
        ELSE FALSE

RECURSIVE ScanZone(_, _, _)
\* for feature in flood_data.get(zone, []): ...; if in_zone: break
\* from the i-th feature on; `tested` is the number of features looked at
ScanZone(point, features, i) ==
    IF i > Len(features) THEN [hit |-> FALSE, tested |-> Len(features)]
    ELSE IF ScanFeature(point, features[i]) THEN [hit |-> TRUE, tested |-> i]
    ELSE ScanZone(point, features, i + 1)

\* the result when a zone's loop is not run at all
NotScanned == [hit |-> FALSE, tested |-> 0]

\* the returned pair (in_zone_2, in_zone_3), with the features tested per zone
ZoneResult(z2, z3) ==
    [in_zone_2 |-> z2.hit, in_zone_3 |-> z3.hit,
     tested_2 |-> z2.tested, tested_3 |-> z3.tested]

\* mutant: Zone 2 is scanned whether or not Zone 3 hit
Zone2Scan_Always(point, flood_data, in_zone_3) ==
    ScanZone(point, flood_data.flood_zone_2, 1)

\* if not in_zone_3: for feature in flood_data.get('flood_zone_2', []): ...
Zone2Scan(point, flood_data, in_zone_3) ==
    IF ~in_zone_3 THEN ScanZone(point, flood_data.flood_zone_2, 1) ELSE NotScanned

\* mutant: Zone 2 is scanned first, and Zone 3 only when Zone 2 did not hit
check_point_in_flood_zones_Zone2First(longitude, latitude, flood_data) ==
    LET point == <<longitude, latitude>>
        z2 == ScanZone(point, flood_data.flood_zone_2, 1)
    IN  ZoneResult(z2, IF ~z2.hit THEN ScanZone(point, flood_data.flood_zone_3, 1)
                       ELSE NotScanned)

check_point_in_flood_zones(longitude, latitude, flood_data) ==
    LET point == <<longitude, latitude>>
        z3 == ScanZone(point, flood_data.flood_zone_3, 1)
    IN  ZoneResult(Zone2Scan(point, flood_data, z3.hit), z3)

----------------------------------------------------------------------------
(* services/flood_service.py : get_flood_risk_description *)

HighRisk == [title |-> "High Flood Risk (Flood Zone 3)", risk_level |-> "high"]

MediumRisk == [title |-> "Medium Flood Risk (Flood Zone 2)", risk_level |-> "medium"]

LowRisk == [title |-> "Low Flood Risk (Flood Zone 1)", risk_level |-> "low"]

\* if in_zone_3: ... elif in_zone_2: ... else: ...
RiskDescription(in_zone_2, in_zone_3) ==
    IF in_zone_3 THEN HighRisk
    ELSE IF in_zone_2 THEN MediumRisk
    ELSE LowRisk

MaxFeatures == 2         \* most features in one zone's list

Ring(x0, y0, x1, y1) == <<<<x0, y0>>, <<x0, y1>>, <<x1, y1>>, <<x1, y0>>>>

Polygon(rings) == [type |-> "Polygon", coordinates |-> rings]

MultiPolygon(polygons) == [type |-> "MultiPolygon", coordinates |-> polygons]

\* the geometries explored: a square, a square with a hole, a triangle and a
\* far square as a MultiPolygon, and a geometry of an unsupported type
SquareA == Polygon(<<Ring(0, 0, 8, 8)>>)

DonutB == Polygon(<<Ring(4, 4, 12, 12), Ring(8, 8, 10, 10)>>)

TriangleAndSquareC ==
    MultiPolygon(<< <<(<<<<0, 0>>, <<16, 0>>, <<0, 16>>>>)>>, <<Ring(12, 12, 16, 16)>> >>)

PointGeometry == [type |-> "Point", coordinates |-> <<1, 1>>]

ZoneFeatures ==
    {[geometry |-> g] : g \in {SquareA, DonutB, TriangleAndSquareC, PointGeometry}}

\* the (longitude, latitude) points explored
Points == {<<1, 1>>, <<5, 5>>, <<9, 9>>, <<13, 13>>, <<17, 17>>}

FloodRiskInit ==
    /\ fr_call = [state |-> "idle"]
    /\ fr_obs = ZoneResult(NotScanned, NotScanned)
    /\ fr_ret = NoReturn

FloodRiskOff == FloodRiskInit

get_flood_risk_description(flood_data, longitude, latitude) ==
    /\ fr_call' = [state |-> "called", flood_data |-> flood_data,
                   point |-> <<longitude, latitude>>]
    /\ fr_obs' = check_point_in_flood_zones(longitude, latitude, flood_data)
    /\ fr_ret' = RiskDescription(fr_obs'.in_zone_2, fr_obs'.in_zone_3)
    /\ UNCHANGED frOthers

\* one call, on any of the flood data and points explored
FloodRiskNext ==
    /\ fr_call.state = "idle"
    /\ \E z2 \in SeqsUpTo(ZoneFeatures, MaxFeatures), z3 \in SeqsUpTo(ZoneFeatures, MaxFeatures),
          pt \in Points :
           get_flood_risk_description([flood_zone_2 |-> z2, flood_zone_3 |-> z3], pt[1], pt[2])

----------------------------------------------------------------------------
(* Claims about get_flood_risk_description *)

\* every ring of a feature's geometry, outer rings and holes alike
RingsOf(feature) ==
    LET geometry == GeometryOf(feature)
    IN  IF geometry.type = "Polygon"
        THEN {geometry.coordinates[i] : i \in 1..Len(geometry.coordinates)}
        ELSE IF geometry.type = "MultiPolygon"
        THEN UNION {{geometry.coordinates[i][j] : j \in 1..Len(geometry.coordinates[i])} :
                        i \in 1..Len(geometry.coordinates)}
        ELSE {}

\* the point is inside the feature: inside one of its rings
Inside(point, feature) == \E ring \in RingsOf(feature) : point_in_polygon(point, ring)

InsideSome(point, features) == \E i \in 1..Len(features) : Inside(point, features[i])

PointInZone2 == InsideSome(fr_call.point, fr_call.flood_data.flood_zone_2)

PointInZone3 == InsideSome(fr_call.point, fr_call.flood_data.flood_zone_3)

\* C5: a point inside a Zone 2 feature and inside a Zone 3 feature gets
\* risk_level 'high', wherever the two features stand in their lists.
C5_ZonePrecedence ==
    (fr_call.state = "called" /\ PointInZone2 /\ PointInZone3) =>
        fr_ret.risk_level = "high"

C5_Witness ==
    /\ fr_call.state = "called" /\ PointInZone2 /\ PointInZone3
    /\ Len(fr_call.flood_data.flood_zone_3) = 2
    /\ ~Inside(fr_call.point, fr_call.flood_data.flood_zone_3[1])
    /\ Inside(fr_call.point, fr_call.flood_data.flood_zone_2[1])
    /\ fr_ret = HighRisk

\* C6: exactly one tier is assigned: 'high' iff some Zone 3 feature contains
\* the point, 'medium' iff none does and some Zone 2 feature does, 'low' iff
\* no feature of either zone does; and no Zone 2 feature is tested when a
\* Zone 3 feature hit.
C6_ExactlyOneTier ==
    fr_call.state = "called" =>
        /\ fr_ret \in {HighRisk, MediumRisk, LowRisk}
        /\ fr_ret.risk_level = "high" <=> PointInZone3
        /\ fr_ret.risk_level = "medium" <=> (~PointInZone3 /\ PointInZone2)
        /\ fr_ret.risk_level = "low" <=> (~PointInZone3 /\ ~PointInZone2)
        /\ PointInZone3 => fr_obs.tested_2 = 0

C6_Witness ==
    /\ fr_call.state = "called"
    /\ fr_ret = MediumRisk
    /\ Len(fr_call.flood_data.flood_zone_3) = 2
    /\ Len(fr_call.flood_data.flood_zone_2) = 2
    /\ ~Inside(fr_call.point, fr_call.flood_data.flood_zone_2[1])
    /\ fr_obs.tested_2 = 2 /\ fr_obs.tested_3 = 2

\* C24 as stated: for each zone, the point is reported in the zone if and
\* only if point_in_polygon is true for at least one ring of at least one
\* Polygon or MultiPolygon feature of that zone.
C24_EachZoneByItsRings ==
    fr_call.state = "called" =>
        /\ fr_obs.in_zone_3 <=> PointInZone3
        /\ fr_obs.in_zone_2 <=> PointInZone2

\* the point is inside a ring of the feature that is not its first ring
InsideHole(point, feature) ==
    /\ GeometryOf(feature).type = "Polygon"
    /\ \E i \in 2..Len(GeometryOf(feature).coordinates) :
           point_in_polygon(point, GeometryOf(feature).coordinates[i])

\* C24 amended: the point is reported in Zone 3 if and only if
\* point_in_polygon is true for at least one ring (outer or hole) of at least
\* one Polygon or MultiPolygon feature of Zone 3, and in Zone 2 if and only if
\* it is not in Zone 3 and that holds of Zone 2; a point inside the hole of a
\* donut is reported inside, and features of other geometry types add nothing.
C24_RingsCountIndependently ==
    fr_call.state = "called" =>
        /\ fr_obs.in_zone_3 <=> PointInZone3
        /\ fr_obs.in_zone_2 <=> (~PointInZone3 /\ PointInZone2)
        /\ (\E i \in 1..Len(fr_call.flood_data.flood_zone_3) :
                InsideHole(fr_call.point, fr_call.flood_data.flood_zone_3[i])) =>
               fr_obs.in_zone_3
        /\ (\A i \in 1..Len(fr_call.flood_data.flood_zone_3) :
                GeometryOf(fr_call.flood_data.flood_zone_3[i]).type
                    \notin {"Polygon", "MultiPolygon"}) =>
               ~fr_obs.in_zone_3

C24_Witness ==
    /\ fr_call.state = "called"
    /\ fr_call.point = <<9, 9>>
    /\ fr_call.flood_data.flood_zone_3 = <<[geometry |-> PointGeometry], [geometry |-> DonutB]>>
    /\ InsideHole(fr_call.point, fr_call.flood_data.flood_zone_3[2])
    /\ fr_obs.in_zone_3
    /\ PointInZone2 /\ ~fr_obs.in_zone_2

----------------------------------------------------------------------------
(* services/flood_service.py : get_flood_data, the page loop *)

PageLimit == 2           \* params["limit"], 10000 in the code, scaled down

MaxPages == 2            \* most zone-page requests explored in one call

\* the value of the key "error" of a response that has one
ErrorOf(r) == IF r.tag = "error" THEN r.error ELSE r.value.d["error"]

ZoneFeature(zone, geometry) ==
    [type |-> "Feature", properties |-> [flood_zone |-> zone], geometry |-> geometry]

\* the kinds of feature a provider may hold: zone 2, zone 3, zone 3 without
\* geometry, an unknown zone code
FeatureKinds ==
    {ZoneFeature("FZ2", "polygon"), ZoneFeature("3", "polygon"),
     ZoneFeature("FZ3", None), ZoneFeature("FZ1", "polygon")}

Catalogues == {c \in SUBSET FeatureKinds : Cardinality(c) = 2}

\* JSON bodies of the zone endpoint: a feature collection of up to PageLimit
\* features (an empty list and null are both falsy, the empty list stands for
\* both), an object without features, a list, null
PageBodies(catalogue) ==
         {JDict([type |-> "FeatureCollection", features |-> f]) :
              f \in SeqsUpTo(catalogue, PageLimit)}
    \cup {JDict([code |-> "400"]), JList, JNull}

PageResults(catalogue) ==
         {[tag |-> "json", value |-> b] : b \in PageBodies(catalogue)}
    \cup {ErrTimedOut, ErrStatus(500, ""), Raised("ValueError")}

ErrFloodData == [tag |-> "error", error |-> "Failed to retrieve flood data: <exception>"]

\* response["features"] when the loop goes on to use it, <<>> when the test
\* `"features" not in response or not response["features"]` breaks the loop
PageFeatures(response) ==
    IF KeyIn("features", response) # "yes" THEN <<>>
    ELSE response.value.d["features"]

\* mutant: only an empty page ends the loop, a short one does not
IsLastPage_OnlyWhenEmpty(features) == FALSE

\* len(response["features"]) < params["limit"]
IsLastPage(features) == Len(features) < PageLimit

FloodDataInit ==
    /\ fd_pc = "paging"
    /\ fd_catalogue \in Catalogues
    /\ fd_collection = <<>>
    /\ fd_offset = 0
    /\ fd_all = <<>>
    /\ fd_reqs = <<>>
    /\ fd_pages = <<>>
    /\ fd_subcalls = <<>>
    /\ fd_ret = NoReturn

FloodDataOff ==
    /\ fd_pc = "off" /\ fd_catalogue = {} /\ fd_collection = <<>>
    /\ fd_offset = 0 /\ fd_all = <<>>
    /\ fd_reqs = <<>> /\ fd_pages = <<>> /\ fd_subcalls = <<>> /\ fd_ret = NoReturn

\* one turn of `while True`: the request for the page at `offset` is sent
PageRequested(response) ==
    /\ fd_pc = "paging"
    /\ Len(fd_reqs) < MaxPages
    /\ fd_reqs' = Append(fd_reqs, [offset |-> fd_offset, limit |-> PageLimit])
    /\ fd_pages' = Append(fd_pages, response)
    /\ UNCHANGED <<fd_catalogue, fd_collection, fd_subcalls>>
    /\ UNCHANGED fdOthers

\* make_request raised, or `"features" in None` raised: the outer except
PageRaises(response) ==
    /\ PageRequested(response)
    /\ KeyIn("features", response) = "raises"
    /\ fd_pc' = "done"
    /\ fd_ret' = ErrFloodData
    /\ UNCHANGED <<fd_offset, fd_all>>

\* mutant: an error value from make_request is returned as the call's error
PageWithoutFeatures_ErrorAborts(response) ==
    /\ PageRequested(response)
    /\ KeyIn("features", response) # "raises"
    /\ PageFeatures(response) = <<>>
    /\ IF response.tag = "error"
       THEN fd_pc' = "done" /\ fd_ret' = response
       ELSE fd_pc' = "paged" /\ UNCHANGED fd_ret
    /\ UNCHANGED <<fd_offset, fd_all>>

\* no features in the response (an error value from make_request included),
\* or an empty list: break
PageWithoutFeatures(response) ==
    /\ PageRequested(response)
    /\ KeyIn("features", response) # "raises"
    /\ PageFeatures(response) = <<>>
    /\ fd_pc' = "paged"
    /\ UNCHANGED <<fd_offset, fd_all, fd_ret>>

\* mutant: offset counts pages, not features
PageWithFeatures_OffsetByOne(response) ==
    /\ PageRequested(response)
    /\ KeyIn("features", response) # "raises"
    /\ PageFeatures(response) # <<>>
    /\ fd_all' = fd_all \o PageFeatures(response)
    /\ IF IsLastPage(PageFeatures(response))
       THEN fd_pc' = "paged" /\ UNCHANGED fd_offset
       ELSE fd_pc' = "paging" /\ fd_offset' = fd_offset + 1
    /\ UNCHANGED fd_ret

\* mutant: a full page does not advance offset
PageWithFeatures_OffsetKept(response) ==
    /\ PageRequested(response)
    /\ KeyIn("features", response) # "raises"
    /\ PageFeatures(response) # <<>>
    /\ fd_all' = fd_all \o PageFeatures(response)
    /\ IF IsLastPage(PageFeatures(response))
       THEN fd_pc' = "paged" /\ UNCHANGED fd_offset
       ELSE fd_pc' = "paging" /\ UNCHANGED fd_offset
    /\ UNCHANGED fd_ret

\* a page with features: extend all_features; break if it is short, else
\* advance offset by its length
PageWithFeatures(response) ==
    /\ PageRequested(response)
    /\ KeyIn("features", response) # "raises"
    /\ PageFeatures(response) # <<>>
    /\ fd_all' = fd_all \o PageFeatures(response)
    /\ IF IsLastPage(PageFeatures(response))
       THEN fd_pc' = "paged" /\ UNCHANGED fd_offset
       ELSE fd_pc' = "paging" /\ fd_offset' = fd_offset + Len(PageFeatures(response))
    /\ UNCHANGED fd_ret

----------------------------------------------------------------------------
(* services/flood_service.py : the partition, get_flood_warnings,
   get_nearby_flood_monitoring_stations and the returned bundle *)

\* feature.get("properties", {}).get("flood_zone", "")
ZoneCode(feature) ==
    IF "properties" \in DOMAIN feature
    THEN GetOr(feature.properties, "flood_zone", "") ELSE ""

IsZone2(feature) == ZoneCode(feature) \in {"FZ2", "2"}

\* the elif: reached only when the first test failed
IsZone3(feature) == ~IsZone2(feature) /\ ZoneCode(feature) \in {"FZ3", "3"}

\* isinstance(feature, dict) and feature.get('geometry')
HasGeometry(feature) == "geometry" \in DOMAIN feature /\ feature.geometry # None

Zone2AndGeometry(feature) == IsZone2(feature) /\ HasGeometry(feature)

Zone3AndGeometry(feature) == IsZone3(feature) /\ HasGeometry(feature)

flood_zone_2(features) == SelectSeq(features, Zone2AndGeometry)

\* mutant: the zone 3 bucket keeps features without geometry
flood_zone_3_AnyGeometry(features) == SelectSeq(features, IsZone3)

flood_zone_3(features) == SelectSeq(features, Zone3AndGeometry)

\* an item of a provider's list that is no dict (a JSON string, say)
NotADict == [json_type |-> "string"]

\* isinstance(item, dict)
IsDict(item) == "json_type" \notin DOMAIN item

\* the items lists explored for the warnings endpoint
WarningItems ==
    {<<NotADict, [severity |-> "Flood Alert", floodArea |-> [county |-> "Kent"]]>>}

\* the items lists explored for the stations endpoint
StationItems ==
    {<<NotADict, [label |-> "Teddington", measures |-> <<[parameterName |-> "Level"],
                 [parameterName |-> "Flow", latestReading |-> [value |-> "1.2"]]>>]>>}

\* what make_request can hand back for an endpoint answering {"items": ...}:
\* the items, an object without items, null, an error value
ItemsResults(items) ==
         {[tag |-> "json", value |-> JDict([items |-> i])] : i \in items}
    \cup {[tag |-> "json", value |-> JDict([meta |-> "none"])],
          [tag |-> "json", value |-> JNull],
          ErrTimedOut}

WarningOf(warning) ==
    [severity |-> GetOr(warning, "severity", "Unknown"),
     severity_level |-> GetOr(warning, "severityLevel", "0"),
     description |-> GetOr(warning, "description", "No description available"),
     area |-> GetOr(warning, "eaAreaName", "Unknown area"),
     county |-> IF "floodArea" \in DOMAIN warning
                THEN GetOr(warning.floodArea, "county", "") ELSE "",
     message |-> GetOr(warning, "message", ""),
     time_raised |-> GetOr(warning, "timeRaised", ""),
     time_updated |-> GetOr(warning, "timeMessageChanged", "")]

RECURSIVE WarningsOf(_)
\* the loop over response["items"]: an item that is no dict is skipped
WarningsOf(items) ==
    IF items = <<>> THEN <<>>
    ELSE IF ~IsDict(items[1]) THEN WarningsOf(Tail(items))
    ELSE <<WarningOf(items[1])>> \o WarningsOf(Tail(items))

\* the items of a response, none when it has no "items" key
ItemsOf(response) ==
    IF KeyIn("items", response) = "yes" THEN response.value.d["items"] ELSE <<>>

WarningsFailed ==
    [count |-> 0, warnings |-> <<>>,
     error |-> "Failed to retrieve flood warnings: <exception>"]

get_flood_warnings(response) ==
    IF KeyIn("error", response) = "raises" THEN WarningsFailed
    ELSE IF KeyIn("error", response) = "yes" THEN [error |-> ErrorOf(response)]
    ELSE [count |-> Len(WarningsOf(ItemsOf(response))),
          warnings |-> WarningsOf(ItemsOf(response))]

RECURSIVE LatestReading(_)
\* the first measure that has a latestReading, None when there is none
LatestReading(measures) ==
    IF measures = <<>> THEN None
    ELSE IF "latestReading" \in DOMAIN measures[1]
    THEN [value |-> GetOr(measures[1].latestReading, "value", "N/A"),
          date |-> GetOr(measures[1].latestReading, "dateTime", "N/A"),
          parameter |-> GetOr(measures[1], "parameterName", "Unknown parameter")]
    ELSE LatestReading(Tail(measures))

StationOf(station) ==
    [name |-> GetOr(station, "label", "Unknown station"),
     river |-> GetOr(station, "riverName", "Unknown river"),
     type |-> GetOr(station, "stationType", "Unknown type"),
     status |-> GetOr(station, "status", "Unknown status"),
     distance_km |-> GetOr(station, "distance", "Unknown distance"),
     latest_reading |-> LatestReading(GetOr(station, "measures", <<>>))]

RECURSIVE StationsOf(_)
StationsOf(items) ==
    IF items = <<>> THEN <<>>
    ELSE IF ~IsDict(items[1]) THEN StationsOf(Tail(items))
    ELSE <<StationOf(items[1])>> \o StationsOf(Tail(items))

StationsFailed ==
    [count |-> 0, stations |-> <<>>,
     error |-> "Failed to retrieve flood monitoring stations: <exception>"]

get_nearby_flood_monitoring_stations(response) ==
    IF KeyIn("error", response) = "raises" THEN StationsFailed
    ELSE IF KeyIn("error", response) = "yes" THEN [error |-> ErrorOf(response)]
    ELSE [count |-> Len(StationsOf(ItemsOf(response))),
          stations |-> StationsOf(ItemsOf(response))]

\* mutant: an error value from either sub-call becomes the call's own error
Bundle_SubErrorsSurface(zone_2, zone_3, flood_warnings, flood_risk_metrics) ==
    IF "error" \in DOMAIN flood_warnings
    THEN [tag |-> "error", error |-> flood_warnings.error]
    ELSE IF "error" \in DOMAIN flood_risk_metrics
    THEN [tag |-> "error", error |-> flood_risk_metrics.error]
    ELSE [tag |-> "bundle", flood_zone_2 |-> zone_2, flood_zone_3 |-> zone_3,
          flood_warnings |-> flood_warnings, flood_metrics |-> flood_risk_metrics]

\* the dict returned (center and radius_km are the arguments, passed through)
Bundle(zone_2, zone_3, flood_warnings, flood_risk_metrics) ==
    [tag |-> "bundle", flood_zone_2 |-> zone_2, flood_zone_3 |-> zone_3,
     flood_warnings |-> flood_warnings, flood_metrics |-> flood_risk_metrics]

\* after the loop: partition all_features, call the two other endpoints,
\* return the bundle. The `"error" in response_fz2` checks test dicts built
\* two lines before with the single key "features", and never fire.
PartitionAndReturn(warnings_response, stations_response) ==
    /\ fd_pc = "paged"
    /\ fd_pc' = "done"
    /\ fd_subcalls' = <<warnings_response, stations_response>>
    /\ fd_ret' = Bundle(flood_zone_2(fd_all), flood_zone_3(fd_all),
                        get_flood_warnings(warnings_response),
                        get_nearby_flood_monitoring_stations(stations_response))
    /\ UNCHANGED <<fd_catalogue, fd_collection, fd_offset, fd_all, fd_reqs, fd_pages>>
    /\ UNCHANGED fdOthers

FloodDataNext ==
    \/ \E r \in PageResults(fd_catalogue) : PageRaises(r)
    \/ \E r \in PageResults(fd_catalogue) : PageWithoutFeatures(r)
    \/ \E r \in PageResults(fd_catalogue) : PageWithFeatures(r)
    \/ \E w \in ItemsResults(WarningItems), st \in ItemsResults(StationItems) :
           PartitionAndReturn(w, st)

----------------------------------------------------------------------------
(* services/flood_service.py : the page loop against a provider that holds a
   finite sequence of features and serves the page params["offset"],
   params["limit"] ask for *)

\* feature number i of a collection, of zone 2 or 3
NumberedFeature(i, zone) ==
    [type |-> "Feature", properties |-> [flood_zone |-> zone, id |-> i],
     geometry |-> "polygon"]

\* the collections explored: every length the loop can page through in
\* MaxPages requests, an exact multiple of the limit included
Collections ==
    UNION {{[i \in 1..n |-> NumberedFeature(i, zones[i])] :
                zones \in [1..n -> {"FZ2", "FZ3"}]} :
           n \in 0..(PageLimit * MaxPages - 1)}

\* the provider's answer to a request with this offset and limit
ProviderPage(collection, offset, limit) ==
    [tag |-> "json",
     value |-> JDict([type |-> "FeatureCollection",
                      features |->
                          IF offset >= Len(collection) THEN <<>>
                          ELSE SubSeq(collection, offset + 1,
                                      Min(offset + limit, Len(collection)))])]

\* the error values make_request can return for a page
PageFailures == {ErrTimedOut, ErrStatus(500, "")}

PagingInit ==
    /\ fd_pc = "paging"
    /\ fd_catalogue = {}
    /\ fd_collection \in Collections
    /\ fd_offset = 0
    /\ fd_all = <<>>
    /\ fd_reqs = <<>>
    /\ fd_pages = <<>>
    /\ fd_subcalls = <<>>
    /\ fd_ret = NoReturn

\* the provider is past the end of its collection: an empty page
PageServedEmpty ==
    PageWithoutFeatures(ProviderPage(fd_collection, fd_offset, PageLimit))

\* the provider serves the features at the offset
PageServed ==
    PageWithFeatures(ProviderPage(fd_collection, fd_offset, PageLimit))

\* make_request fails for the page
PageFails(failure) == PageWithoutFeatures(failure)

PagingNext ==
    \/ PageServedEmpty
    \/ PageServed
    \/ \E failure \in PageFailures : PageFails(failure)
    \/ \E w \in ItemsResults(WarningItems), st \in ItemsResults(StationItems) :
           PartitionAndReturn(w, st)

----------------------------------------------------------------------------
(* Claims about get_flood_data *)

\* make_request returned an error value
Failed(response) == response.tag = "error"

Returned == fd_pc = "done"

SubCallsDone == Returned /\ fd_subcalls # <<>>

\* C7: when the request for the first zone page fails, get_flood_data returns
\* a top-level error, not a bundle.
C7_FirstPageFailureIsError ==
    (Returned /\ Failed(fd_pages[1])) => fd_ret.tag = "error"

\* C8 as stated: a failed warnings or stations call makes get_flood_data
\* return a top-level error, and no bundle holds an error value as its
\* flood_warnings or flood_metrics member.
C8_SubCallFailureIsTopLevel ==
    /\ (SubCallsDone /\ (Failed(fd_subcalls[1]) \/ Failed(fd_subcalls[2]))) =>
           fd_ret.tag = "error"
    /\ fd_ret.tag = "bundle" =>
           /\ "error" \notin DOMAIN fd_ret.flood_warnings
           /\ "error" \notin DOMAIN fd_ret.flood_metrics

\* C8 amended: a failed warnings or stations call does not fail
\* get_flood_data: the bundle is returned with its zone lists, and the failure
\* is the error value held by the flood_warnings (flood_metrics) member; that
\* member carries an error exactly when its call failed or raised.
C8_SubCallFailureIsNested ==
    SubCallsDone =>
        /\ fd_ret.tag = "bundle"
        /\ fd_ret.flood_zone_2 = flood_zone_2(fd_all)
        /\ fd_ret.flood_zone_3 = flood_zone_3(fd_all)
        /\ Failed(fd_subcalls[1]) =>
               fd_ret.flood_warnings = [error |-> fd_subcalls[1].error]
        /\ Failed(fd_subcalls[2]) =>
               fd_ret.flood_metrics = [error |-> fd_subcalls[2].error]
        /\ "error" \in DOMAIN fd_ret.flood_warnings <=>
               (Failed(fd_subcalls[1]) \/ fd_subcalls[1].value = JNull)
        /\ "error" \in DOMAIN fd_ret.flood_metrics <=>
               (Failed(fd_subcalls[2]) \/ fd_subcalls[2].value = JNull)

C8_Witness ==
    /\ SubCallsDone
    /\ Failed(fd_subcalls[1]) /\ ~Failed(fd_subcalls[2])
    /\ fd_ret.tag = "bundle"
    /\ fd_ret.flood_warnings = [error |-> "Request timed out"]
    /\ fd_ret.flood_metrics.count = 1
    /\ fd_ret.flood_zone_2 # <<>>

\* the features a page put into all_features
Kept(i) == PageFeatures(fd_pages[i])

\* C9: a page with fewer features than the limit (an empty page or a response
\* without a feature list included) is the last page requested, and its
\* features are the last ones of all_features.
C9_ShortPageEndsPaging ==
    \A i \in 1..Len(fd_pages) :
        Len(Kept(i)) < PageLimit =>
            /\ i = Len(fd_pages)
            /\ Len(fd_reqs) = i
            /\ fd_pc # "paging"
            /\ Len(fd_all) >= Len(Kept(i))
            /\ SubSeq(fd_all, Len(fd_all) - Len(Kept(i)) + 1, Len(fd_all)) = Kept(i)

C9_Witness ==
    /\ Returned /\ fd_ret.tag = "bundle"
    /\ Len(fd_pages) = 2
    /\ Len(Kept(1)) = PageLimit
    /\ Len(Kept(2)) = 1
    /\ fd_reqs[2].offset = PageLimit
    /\ Len(fd_all) = PageLimit + 1

RECURSIVE KeptUpTo(_)
\* the features the first k pages put into all_features, in order
KeptUpTo(k) == IF k = 0 THEN <<>> ELSE KeptUpTo(k - 1) \o Kept(k)

\* C25: when the request for a page after the first fails (make_request
\* returns an error value), the page is dropped and paging stops: no further
\* request is made, all_features holds the features of the earlier pages, and
\* the call returns a bundle, with no top-level error, whose zone lists are
\* taken from those features.
C25_LaterPageFailureKeepsEarlierPages ==
    \A i \in 2..Len(fd_pages) :
        Failed(fd_pages[i]) =>
            /\ i = Len(fd_pages) /\ Len(fd_reqs) = i
            /\ fd_pc \in {"paged", "done"}
            /\ fd_all = KeptUpTo(i - 1)
            /\ Len(fd_all) = (i - 1) * PageLimit
            /\ Returned =>
                   /\ fd_ret.tag = "bundle"
                   /\ \A k \in 1..Len(fd_all) :
                          (fd_all[k].properties.flood_zone \in {"FZ2", "2"}
                               /\ fd_all[k].geometry # None) =>
                              \E j \in 1..Len(fd_ret.flood_zone_2) :
                                  fd_ret.flood_zone_2[j] = fd_all[k]
                   /\ \A k \in 1..Len(fd_all) :
                          (fd_all[k].properties.flood_zone \in {"FZ3", "3"}
                               /\ fd_all[k].geometry # None) =>
                              \E j \in 1..Len(fd_ret.flood_zone_3) :
                                  fd_ret.flood_zone_3[j] = fd_all[k]

C25_Witness ==
    /\ Returned
    /\ Len(fd_pages) = 2
    /\ Failed(fd_pages[2])
    /\ fd_ret.tag = "bundle"
    /\ Len(fd_all) = PageLimit
    /\ Len(fd_ret.flood_zone_2) + Len(fd_ret.flood_zone_3) = PageLimit

\* no request of the page loop has failed
NoPageFailed == \A i \in 1..Len(fd_pages) : ~Failed(fd_pages[i])

\* C29: against a provider that holds a finite sequence of features and
\* honours offset and limit, the offset sent with each request is the number
\* of features accumulated so far, all_features is at every moment the first
\* features of the provider's sequence in its order (none skipped, none
\* repeated), and when the loop ends without a failed request all_features is
\* the whole sequence.
C29_EveryFeatureOnceInOrder ==
    /\ \A i \in 1..Len(fd_reqs) :
           /\ fd_reqs[i].offset = Len(KeptUpTo(i - 1))
           /\ fd_reqs[i].limit = PageLimit
    /\ fd_pc = "paging" => fd_offset = Len(fd_all)
    /\ Len(fd_all) <= Len(fd_collection)
    /\ \A k \in 1..Len(fd_all) : fd_all[k] = fd_collection[k]
    /\ (fd_pc # "paging" /\ NoPageFailed) => fd_all = fd_collection

C29_Witness ==
    /\ Returned /\ NoPageFailed
    /\ Len(fd_collection) = PageLimit + 1
    /\ Len(fd_reqs) = 2
    /\ fd_reqs[2].offset = PageLimit
    /\ fd_all = fd_collection
    /\ fd_all[PageLimit + 1].properties.id = PageLimit + 1

\* the page loop has ended
LoopEnded == fd_pc # "paging"

\* the last page requested was short, empty or an error
LastPageEndsLoop ==
    /\ fd_pages # <<>>
    /\ \/ Failed(Last(fd_pages))
       \/ Len(Kept(Len(fd_pages))) < PageLimit

\* C30: against a provider holding a finite collection the call returns; the
\* loop ends only after a page that is short, empty or an error, every
\* earlier page being full; without a failed request it ends after
\* N div limit + 1 requests, so a collection that is an exact multiple of
\* the limit costs one more request, answered by an empty page; and the loop
\* is never stopped by a count of pages.
C30_PagingTerminates ==
    /\ <>Returned
    /\ [](LoopEnded => LastPageEndsLoop)
    /\ [](\A i \in 1..(Len(fd_pages) - 1) : Len(Kept(i)) = PageLimit)
    /\ []((LoopEnded /\ NoPageFailed) =>
              Len(fd_reqs) = (Len(fd_collection) \div PageLimit) + 1)
    /\ [](fd_pc = "paging" => Len(fd_reqs) < MaxPages)

C30_Witness ==
    /\ Returned /\ NoPageFailed
    /\ Len(fd_collection) = PageLimit
    /\ Len(fd_reqs) = 2
    /\ Kept(1) = fd_collection
    /\ Kept(2) = <<>>
    /\ fd_all = fd_collection

\* the members of a list
Members(list) == {list[i] : i \in 1..Len(list)}

\* the feature's zone code is one of the codes
CodeAmong(feature, codes) == feature.properties.flood_zone \in codes

\* the feature has a geometry that is not null
GeometryPresent(feature) == feature.geometry # None

\* C19: in a returned bundle every feature of flood_zone_2 has code 'FZ2' or
\* '2' and a geometry, every feature of flood_zone_3 has code 'FZ3' or '3' and
\* a geometry, no feature is in both, and a fetched feature with another code
\* or without geometry is in neither.
C19_BucketsHoldTheirZone ==
    fd_ret.tag = "bundle" =>
        /\ \A f \in Members(fd_ret.flood_zone_2) :
               CodeAmong(f, {"FZ2", "2"}) /\ GeometryPresent(f)
        /\ \A f \in Members(fd_ret.flood_zone_3) :
               CodeAmong(f, {"FZ3", "3"}) /\ GeometryPresent(f)
        /\ Members(fd_ret.flood_zone_2) \cap Members(fd_ret.flood_zone_3) = {}
        /\ \A f \in Members(fd_all) :
               (~CodeAmong(f, {"FZ2", "2", "FZ3", "3"}) \/ ~GeometryPresent(f)) =>
                   f \notin Members(fd_ret.flood_zone_2) \cup Members(fd_ret.flood_zone_3)
        /\ Members(fd_ret.flood_zone_2) \cup Members(fd_ret.flood_zone_3) \subseteq Members(fd_all)

C19_Witness ==
    /\ fd_ret.tag = "bundle"
    /\ ZoneFeature("FZ3", None) \in Members(fd_all)
    /\ ZoneFeature("3", "polygon") \in Members(fd_all)
    /\ Members(fd_ret.flood_zone_3) = {ZoneFeature("3", "polygon")}
    /\ fd_ret.flood_zone_2 = <<>>

----------------------------------------------------------------------------
(* services/property_service.py : get_uk_house_price_index, the row loop *)

MaxRows == 2             \* most rows of hpi_data explored

\* the five channels, in the order the loop body handles them
ChannelOrder == <<"Average", "Detached", "Semi-detached", "Terraced", "Flat/Maisonette">>

property_types == <<"Detached", "Semi-detached", "Terraced", "Flat/Maisonette">>

\* Prices are counted in half pounds, so that float prices ending in .5 exist:
\* the raw value h stands for the float h / 2. 39 and 41 differ and round to
\* the same price, 20; 44 is 22, a tenth above 20.
RawPrices == {0, 39, 41, 44}

\* round(price): Python rounds a half to the even neighbour
Round(h) ==
    LET q == h \div 2
    IN  IF h % 2 = 0 THEN q
        ELSE IF q % 2 = 0 THEN q ELSE q + 1

YearMonth(y, m) == [y |-> y, m |-> m]

\* refMonth values: two months a year apart, a month between them, and one
\* strptime rejects
RefMonths == {YearMonth(2023, 1), YearMonth(2023, 2), YearMonth(2024, 1),
              [text |-> "2024-13"]}

\* datetime.strptime(date_str, '%Y-%m').strftime('%Y-%m-%d'), and the except
\* branch: f"{date_str}-01" (every refMonth explored holds a '-')
FormattedDate(date_str) ==
    IF "text" \in DOMAIN date_str THEN [text |-> date_str.text, suffix |-> "-01"]
    ELSE [y |-> date_str.y, m |-> date_str.m, d |-> 1]

\* the raw prices the other channel takes: half a pound and a pound and a half
ChannelRawPrices == {1, 3}

\* The rows explored: a refMonth with no price, with averagePrice alone, with
\* the price of one other channel alone, or with both. They carry no
\* refRegion and no percentageAnnualChange*, so region_name stays "England"
\* and no entry gets a percentage_annual_change.
PriceRows(channel) ==
    {[refMonth |-> d, prices |-> p] :
        d \in RefMonths,
        p \in      {<<>>}
              \cup [{"Average"} -> RawPrices]
              \cup [{channel} -> ChannelRawPrices]
              \cup {[t \in {"Average", channel} |-> IF t = "Average" THEN 44 ELSE 3]}}

\* float(entry.get(key, {}).get('value', 0)) if key in entry else 0
PriceOf(entry, type) ==
    IF type \in DOMAIN entry.prices THEN entry.prices[type] ELSE 0

PriceEntry(date, type, price) ==
    [date |-> date, average_price |-> price, property_type |-> type]

\* mutant: the scan looks for an entry with the SAME rounded price
ExistingEntry_SamePrice(price_data, date, type, rounded) ==
    \E i \in 1..Len(price_data) :
        /\ price_data[i].date = date
        /\ price_data[i].property_type = type
        /\ price_data[i].average_price = rounded

\* existing_entry is not None: some item has this date and type and
\* item['average_price'] != round(price)
ExistingEntry(price_data, date, type, rounded) ==
    \E i \in 1..Len(price_data) :
        /\ price_data[i].date = date
        /\ price_data[i].property_type = type
        /\ price_data[i].average_price # rounded

\* one `if <channel>_price > 0:` block; acc holds price_data and the log
AddChannel(acc, entry, type) ==
    LET date == FormattedDate(entry.refMonth)
        rounded == Round(PriceOf(entry, type))
        appended == ~ExistingEntry(acc.data, date, type, rounded)
    IN  IF PriceOf(entry, type) > 0
        THEN [data |-> IF appended
                       THEN Append(acc.data, PriceEntry(date, type, rounded))
                       ELSE acc.data,
              log |-> Append(acc.log, [date |-> date, type |-> type, price |-> rounded,
                                       before |-> acc.data, appended |-> appended])]
        ELSE acc

RECURSIVE AddChannels(_, _, _)
\* the five blocks of the loop body, from the i-th on
AddChannels(acc, entry, i) ==
    IF i > Len(ChannelOrder) THEN acc
    ELSE AddChannels(AddChannel(acc, entry, ChannelOrder[i]), entry, i + 1)

\* requests.post has not been called
NotAsked == [kind |-> "none"]

PriceInit ==
    /\ pr_pc = "query"
    /\ pr_channel \in {property_types[i] : i \in 1..Len(property_types)}
    /\ pr_answer = NotAsked
    /\ pr_rows = <<>>
    /\ pr_data = <<>>
    /\ pr_log = <<>>
    /\ pr_ret = NoReturn

PriceOff ==
    /\ pr_pc = "off" /\ pr_channel = "" /\ pr_answer = NotAsked
    /\ pr_rows = <<>> /\ pr_data = <<>>
    /\ pr_log = <<>> /\ pr_ret = NoReturn

ErrSparqlStatus(code) ==
    [tag |-> "error", error |-> "SPARQL query failed with status code", code |-> code]

ErrNoIndexData == [tag |-> "error", error |-> "No house price index data found"]

ErrNoValidData == [tag |-> "error", error |-> "No valid house price data found"]

ErrPriceIndex ==
    [tag |-> "error", error |-> "Failed to get UK House Price Index data: <exception>"]

\* what requests.post can produce: a status with a body that has bindings
\* (some rows), has an empty bindings list or has no results, or an exception
QueryOutcomes ==
         {[kind |-> "response", code |-> 200, bindings |-> b] :
              b \in {"rows", "empty", "missing"}}
    \cup {[kind |-> "response", code |-> 500], [kind |-> "exception"]}

\* the query is answered without rows to loop over: the three early returns
QueryWithoutRows(o) ==
    /\ pr_pc = "query"
    /\ ~(o.kind = "response" /\ o.code = 200 /\ o.bindings = "rows")
    /\ pr_pc' = "done"
    /\ pr_answer' = o
    /\ pr_ret' = IF o.kind = "exception" THEN ErrPriceIndex
                 ELSE IF o.code # 200 THEN ErrSparqlStatus(o.code)
                 ELSE ErrNoIndexData
    /\ UNCHANGED <<pr_channel, pr_rows, pr_data, pr_log>>
    /\ UNCHANGED prOthers

\* status 200 with a non-empty bindings list: the loop starts
QueryWithRows(o) ==
    /\ pr_pc = "query"
    /\ o.kind = "response" /\ o.code = 200 /\ o.bindings = "rows"
    /\ pr_pc' = "rows"
    /\ pr_answer' = o
    /\ UNCHANGED <<pr_channel, pr_rows, pr_data, pr_log, pr_ret>>
    /\ UNCHANGED prOthers

\* one turn of `for entry in hpi_data`
RowProcessed(entry) ==
    /\ pr_pc = "rows"
    /\ Len(pr_rows) < MaxRows
    /\ pr_rows' = Append(pr_rows, entry)
    /\ pr_data' = AddChannels([data |-> pr_data, log |-> <<>>], entry, 1).data
    /\ pr_log' = AddChannels([data |-> pr_data, log |-> <<>>], entry, 1).log
    /\ UNCHANGED <<pr_pc, pr_channel, pr_answer, pr_ret>>
    /\ UNCHANGED prOthers

----------------------------------------------------------------------------
(* services/property_service.py : get_uk_house_price_index, after the loop *)

IsLeap(y) == (y % 4 = 0 /\ y % 100 # 0) \/ y % 400 = 0

\* days from 2000-01-01 to the first day of year y (2000 <= y)
DaysBeforeYear(y) == 365 * (y - 2000) + Cardinality({k \in 2000..(y - 1) : IsLeap(k)})

DaysBeforeMonth(y, m) ==
    <<0, 31, 59, 90, 120, 151, 181, 212, 243, 273, 304, 334>>[m]
        + (IF m > 2 /\ IsLeap(y) THEN 1 ELSE 0)

\* the day number of a date datetime.strptime(..., '%Y-%m-%d') accepts
DayNumber(date) == DaysBeforeYear(date.y) + DaysBeforeMonth(date.y, date.m) + date.d - 1

\* datetime.strptime(item['date'], '%Y-%m-%d') raises ValueError
Unparseable(date) == "text" \in DOMAIN date

IsAverage(item) == item.property_type = "Average"

average_entries(price_data) == SelectSeq(price_data, IsAverage)

Nothing == [none |-> TRUE]

Some(v) == [value |-> v]

\* max(dates): the day number of the latest Average entry
RecentDay(entries) ==
    CHOOSE n \in {DayNumber(entries[i].date) : i \in 1..Len(entries)} :
        \A j \in 1..Len(entries) : DayNumber(entries[j].date) <= n

Abs(n) == IF n < 0 THEN 0 - n ELSE n

\* mutant: the latest date stands for the closest one
ClosestIndex_Latest(entries, year_ago) ==
    CHOOSE i \in 1..Len(entries) :
        \A j \in 1..Len(entries) :
            DayNumber(entries[i].date) >= DayNumber(entries[j].date)

\* min(dates, key=lambda d: abs(d - year_ago_date)): the first date, in list
\* order, at the least distance
ClosestIndex(entries, year_ago) ==
    CHOOSE i \in 1..Len(entries) :
        /\ \A j \in 1..Len(entries) :
               Abs(DayNumber(entries[i].date) - year_ago)
                   <= Abs(DayNumber(entries[j].date) - year_ago)
        /\ \A j \in 1..(i - 1) :
               Abs(DayNumber(entries[j].date) - year_ago)
                   > Abs(DayNumber(entries[i].date) - year_ago)

\* next((item['average_price'] for item in price_data if item['date'] == ...
\*       and item['property_type'] == 'Average'), 0)
FirstPriceOn(entries, day) ==
    IF \E i \in 1..Len(entries) : DayNumber(entries[i].date) = day
    THEN entries[CHOOSE i \in 1..Len(entries) :
                    /\ DayNumber(entries[i].date) = day
                    /\ \A j \in 1..(i - 1) : DayNumber(entries[j].date) # day].average_price
    ELSE 0

\* ((average_recent - average_year_ago) / average_year_ago) * 100, kept as
\* the exact fraction num / den
YearlyChange(average_recent, average_year_ago) ==
    IF average_year_ago > 0
    THEN [num |-> (average_recent - average_year_ago) * 100, den |-> average_year_ago]
    ELSE Nothing

\* the dict returned when price_data is not empty and every date parses
PriceSummary(price_data) ==
    LET entries == average_entries(price_data)
        recent == RecentDay(entries)
        year_ago == recent - 365
        average_recent == FirstPriceOn(entries, recent)
        closest == DayNumber(entries[ClosestIndex(entries, year_ago)].date)
    IN  [tag |-> "summary",
         current_average_price |-> IF average_recent > 0 THEN Some(average_recent)
                                   ELSE Nothing,
         yearly_change_percentage |->
             YearlyChange(average_recent, FirstPriceOn(entries, closest)),
         price_data |-> price_data,
         property_types |-> Append(property_types, "Average"),
         region_name |-> "England"]

\* mutant: an empty price_data is reported as the outer except reports
PriceResult_EmptyIsFailure(price_data) ==
    IF price_data = <<>> THEN ErrPriceIndex
    ELSE IF average_entries(price_data) = <<>> THEN ErrPriceIndex
    ELSE IF \E i \in 1..Len(price_data) :
                IsAverage(price_data[i]) /\ Unparseable(price_data[i].date)
    THEN ErrPriceIndex
    ELSE PriceSummary(price_data)

\* the statements after the loop. max() of no Average entry, or strptime of an
\* Average entry's unparseable date, raise ValueError into the outer except.
PriceResult(price_data) ==
    IF price_data = <<>> THEN ErrNoValidData
    ELSE IF average_entries(price_data) = <<>> THEN ErrPriceIndex
    ELSE IF \E i \in 1..Len(price_data) :
                IsAverage(price_data[i]) /\ Unparseable(price_data[i].date)
    THEN ErrPriceIndex
    ELSE PriceSummary(price_data)

\* hpi_data is exhausted (it held at least one row)
RowsExhausted ==
    /\ pr_pc = "rows"
    /\ Len(pr_rows) >= 1
    /\ pr_pc' = "done"
    /\ pr_ret' = PriceResult(pr_data)
    /\ UNCHANGED <<pr_channel, pr_answer, pr_rows, pr_data, pr_log>>
    /\ UNCHANGED prOthers

PriceNext ==
    \/ \E o \in QueryOutcomes : QueryWithoutRows(o)
    \/ \E o \in QueryOutcomes : QueryWithRows(o)
    \/ \E entry \in PriceRows(pr_channel) : RowProcessed(entry)
    \/ RowsExhausted

----------------------------------------------------------------------------
(* Claims about get_uk_house_price_index *)

\* an entry of the series with the candidate's date and type and another price
Clashes(series, c) ==
    \E i \in 1..Len(series) :
        /\ series[i].date = c.date
        /\ series[i].property_type = c.type
        /\ series[i].average_price # c.price

\* the number of entries of the series equal to the entry e
Copies(series, e) == Cardinality({i \in 1..Len(series) : series[i] = e})

\* the series as the row's candidates up to the k-th left it
RECURSIVE SeriesAfter(_)
SeriesAfter(k) ==
    IF pr_log[k].appended
    THEN Append(pr_log[k].before, PriceEntry(pr_log[k].date, pr_log[k].type, pr_log[k].price))
    ELSE pr_log[k].before

\* C10: a candidate (date, type, rounded price) is appended if and only if the
\* series holds no entry with its date and type and a different rounded
\* price; so a candidate equal to an entry of the series is appended again and
\* the series then holds one more copy of it.
C10_AppendUnlessDifferentPrice ==
    \A k \in 1..Len(pr_log) :
        LET c == pr_log[k]
            e == PriceEntry(c.date, c.type, c.price)
        IN  /\ c.appended <=> ~Clashes(c.before, c)
            /\ Copies(c.before, e) > 0 =>
                   /\ c.appended
                   /\ Copies(SeriesAfter(k), e) = Copies(c.before, e) + 1
            /\ SeriesAfter(k) = IF k < Len(pr_log) THEN pr_log[k + 1].before ELSE pr_data

C10_Witness ==
    /\ Len(pr_rows) = 2
    /\ pr_rows[1].prices # pr_rows[2].prices
    /\ \E k \in 1..Len(pr_log) :
           /\ pr_log[k].type = "Detached"
           /\ pr_log[k].appended
           /\ Copies(pr_log[k].before,
                     PriceEntry(pr_log[k].date, pr_log[k].type, pr_log[k].price)) = 1
    /\ \E i, j \in 1..Len(pr_data) : i # j /\ pr_data[i] = pr_data[j]

\* C11: a candidate whose date and type are those of an entry of the series
\* and whose rounded price differs from that entry's is appended, and the
\* series then holds both entries.
C11_DifferentPriceIsAppended ==
    \A k \in 1..Len(pr_log) :
        Clashes(pr_log[k].before, pr_log[k]) =>
            /\ pr_log[k].appended
            /\ Copies(SeriesAfter(k),
                      PriceEntry(pr_log[k].date, pr_log[k].type, pr_log[k].price)) > 0

\* the Average entries of the returned series
ReturnedAverages == average_entries(pr_ret.price_data)

\* the i-th Average entry is one with the latest date
IsLatest(i) ==
    \A j \in 1..Len(ReturnedAverages) :
        DayNumber(ReturnedAverages[j].date) <= DayNumber(ReturnedAverages[i].date)

\* the distance of the j-th Average entry from 365 days before the i-th
YearAgoDistance(i, j) ==
    LET gap == DayNumber(ReturnedAverages[j].date)
                   - (DayNumber(ReturnedAverages[i].date) - 365)
    IN  IF gap < 0 THEN 0 - gap ELSE gap

\* the j-th Average entry is one at the least distance from a year before the i-th
IsClosest(i, j) ==
    \A k \in 1..Len(ReturnedAverages) : YearAgoDistance(i, j) <= YearAgoDistance(i, k)

\* the Average entries are of 2023-01 at 20 and of 2024-01 at 22, and no other
TenPercentSeries ==
    {<<ReturnedAverages[i].date, ReturnedAverages[i].average_price>> :
         i \in 1..Len(ReturnedAverages)}
        = {<<[y |-> 2023, m |-> 1, d |-> 1], 20>>, <<[y |-> 2024, m |-> 1, d |-> 1], 22>>}

\* C12: a yearly change that is returned is (latest - closest) / closest * 100
\* for the price of an Average entry of the latest date and the price of an
\* Average entry at the least distance from 365 days before it (compared as
\* fractions); for 2023-01 = 20 and 2024-01 = 22 it is 10.
C12_YearlyChangeFormula ==
    (pr_ret.tag = "summary" /\ pr_ret.yearly_change_percentage # Nothing) =>
        /\ \E i, j \in 1..Len(ReturnedAverages) :
               /\ IsLatest(i)
               /\ IsClosest(i, j)
               /\ pr_ret.yearly_change_percentage.den > 0
               /\ pr_ret.yearly_change_percentage.num * ReturnedAverages[j].average_price
                      = (ReturnedAverages[i].average_price - ReturnedAverages[j].average_price)
                            * 100 * pr_ret.yearly_change_percentage.den
        /\ TenPercentSeries =>
               pr_ret.yearly_change_percentage.num
                   = 10 * pr_ret.yearly_change_percentage.den

C12_Witness ==
    /\ pr_ret.tag = "summary"
    /\ TenPercentSeries
    /\ pr_ret.yearly_change_percentage = [num |-> 200, den |-> 20]

\* the returned series holds no Average entry dated before the latest one
NoEarlierAverage ==
    \A i, j \in 1..Len(ReturnedAverages) :
        DayNumber(ReturnedAverages[i].date) = DayNumber(ReturnedAverages[j].date)

\* C13: when the series holds no Average entry earlier than the latest Average
\* entry (a single Average entry, say), the yearly change returned is None.
C13_NoEarlierValueIsAbsent ==
    (pr_ret.tag = "summary" /\ NoEarlierAverage) =>
        pr_ret.yearly_change_percentage = Nothing

\* the row gives no channel a price above zero
Unusable(row) == \A t \in DOMAIN row.prices : row.prices[t] <= 0

\* C14: a 200 answer with an empty or a missing bindings list returns the
\* 'no index data' error, and rows of which none yields an entry return the
\* 'no valid data' error; both differ from the error of a non-200 status and
\* from the error of an exception.
C14_NoDataIsNotTransportError ==
    pr_pc = "done" =>
        /\ (pr_answer.kind = "response" /\ pr_answer.code = 200
                /\ pr_answer.bindings \in {"empty", "missing"}) =>
               /\ pr_ret = ErrNoIndexData
               /\ pr_ret # ErrPriceIndex
               /\ \A code \in 100..599 : pr_ret # ErrSparqlStatus(code)
        /\ (Len(pr_rows) >= 1 /\ \A i \in 1..Len(pr_rows) : Unusable(pr_rows[i])) =>
               /\ pr_ret = ErrNoValidData
               /\ pr_ret # ErrPriceIndex
               /\ \A code \in 100..599 : pr_ret # ErrSparqlStatus(code)

C14_Witness ==
    /\ pr_pc = "done"
    /\ Len(pr_rows) = 2
    /\ pr_rows[1].prices = <<>>
    /\ "Average" \in DOMAIN pr_rows[2].prices
    /\ pr_ret = ErrNoValidData

\* the five property types an entry can carry
FiveTypes == {ChannelOrder[i] : i \in 1..Len(ChannelOrder)}

\* the row gives the channel a price above zero
Priced(row, type) == type \in DOMAIN row.prices /\ row.prices[type] > 0

\* C26: every entry of the series has a rounded price above zero and one of
\* the five property types; in each row a channel whose price is absent or
\* zero is no candidate, and every channel with a price is one.
C26_EntriesHavePositivePrices ==
    /\ \A i \in 1..Len(pr_data) :
           pr_data[i].average_price > 0 /\ pr_data[i].property_type \in FiveTypes
    /\ pr_rows # <<>> =>
           \A type \in FiveTypes :
               Priced(Last(pr_rows), type)
                   <=> \E k \in 1..Len(pr_log) : pr_log[k].type = type

----------------------------------------------------------------------------
(* services/crime_service.py *)

Months == 12             \* range(12)

KmToMiles == 621371      \* 0.621371, in millionths

OneMile == 10000000      \* 1.0 mile, in ten-millionths of a mile

MaxChanges == 1          \* most changes of kind in the run of answers of one call

\* radius_km in tenths of a kilometre: the steps of the page's slider used
Radii == {5, 10, 15, 20, 50}

\* the radius of the calls that loop over the months
LoopRadii == {10, 20}

\* datetime.now(): every month of 2024, and January 2023
Todays == {[year |-> 2024, month |-> m] : m \in 1..12} \cup {[year |-> 2023, month |-> 1]}

\* f"{current_year}-{current_month:02d}": the year and the two digits of the month
DateStr(year, month) == [year |-> year, mm |-> <<month \div 10, month % 10>>]

RECURSIVE WrapMonth(_, _)
\* while current_month <= 0: current_month += 12; current_year -= 1
WrapMonth(current_month, current_year) ==
    IF current_month <= 0 THEN WrapMonth(current_month + 12, current_year - 1)
    ELSE DateStr(current_year, current_month)

\* mutant: the wrap-around leaves the year alone
MonthOf_SameYear(today, i) == DateStr(today.year, ((today.month - i - 1) % 12) + 1)

\* date_str of the i-th turn of the loop
MonthOf(today, i) == WrapMonth(today.month - i, today.year)

\* mutant: the radius is sent as converted, whatever its size
CrimeParams_NoClamp(radius_km, date_str) ==
    [date |-> date_str, radius |-> radius_km * KmToMiles]

\* params of get_crime_data_for_date (lat and lng are passed through): the
\* radius in ten-millionths of a mile, set only if radius_miles <= 1.0
CrimeParams(radius_km, date_str) ==
    LET radius_miles == Min(radius_km * KmToMiles, OneMile)
    IN  IF radius_miles <= OneMile
        THEN [date |-> date_str, radius |-> radius_miles]
        ELSE [date |-> date_str]

\* what one requests.get of get_crime_data_for_date can meet
AnswerKinds == {"list", "empty", "null", "status", "exception"}

\* the kinds of answer explored in the calls that loop over the months
LoopAnswerKinds == {"list", "empty", "null", "status"}

CrimeList(items) == [t |-> "list", items |-> items]

ErrCrimeFetch == [tag |-> "error", error |-> "Failed to fetch crime data: <exception>"]

\* what get_crime_data_for_date returns on an answer of the kind: the body of
\* a 200 (a list of that month's incidents, an empty list, a JSON null), the
\* error dict of another status or the error dict of the except branch
CrimesForDate(kind, date_str) ==
    CASE kind = "list" -> [tag |-> "json", value |-> CrimeList(<<[month |-> date_str]>>)]
      [] kind = "empty" -> [tag |-> "json", value |-> CrimeList(<<>>)]
      [] kind = "null" -> [tag |-> "json", value |-> JNull]
      [] kind = "status" -> ErrStatus(500, "")
      [] kind = "exception" -> ErrCrimeFetch

\* isinstance(crimes, dict) and "error" in crimes
IsMonthError(crimes) == KeyIn("error", crimes) = "yes"

\* the number of places where the run of answers changes kind
Changes(answers) ==
    Cardinality({i \in 1..(Len(answers) - 1) : answers[i] # answers[i + 1]})

CrimeCalls ==
         {[fn |-> f, date |-> Nothing, radius |-> r, today |-> t] :
              f \in {"get_crime_data", "get_last_year_monthly_data"},
              r \in LoopRadii, t \in Todays}
    \cup {[fn |-> "get_crime_data", date |-> DateStr(2024, 3), radius |-> r, today |-> t] :
              r \in Radii, t \in {[year |-> 2024, month |-> 6]}}

CrimeInit ==
    /\ cr_pc = "called"
    /\ cr_call \in CrimeCalls
    /\ cr_reqs = <<>>
    /\ cr_answers = <<>>
    /\ cr_acc = <<>>
    /\ cr_ret = NoReturn

CrimeOff ==
    /\ cr_pc = "off" /\ cr_call = [fn |-> "none"] /\ cr_reqs = <<>>
    /\ cr_answers = <<>> /\ cr_acc = <<>> /\ cr_ret = NoReturn

\* get_crime_data with a date: the month's value is returned as it is
SingleMonth(kind) ==
    /\ cr_pc = "called"
    /\ cr_call.fn = "get_crime_data" /\ cr_call.date # Nothing
    /\ cr_reqs' = <<CrimeParams(cr_call.radius, cr_call.date)>>
    /\ cr_answers' = <<kind>>
    /\ cr_pc' = "done"
    /\ cr_ret' = CrimesForDate(kind, cr_call.date)
    /\ UNCHANGED <<cr_call, cr_acc>>
    /\ UNCHANGED crOthers

\* a turn of `for i in range(12)` is to be taken, and its answer is of the kind
MonthTurn(kind) ==
    /\ cr_pc = "called"
    /\ cr_call.date = Nothing
    /\ Len(cr_reqs) < Months
    /\ Changes(Append(cr_answers, kind)) <= MaxChanges
    /\ cr_reqs' = Append(cr_reqs,
                         CrimeParams(cr_call.radius, MonthOf(cr_call.today, Len(cr_reqs))))
    /\ cr_answers' = Append(cr_answers, kind)

\* mutant: an errored month ends the loop and its error value is returned
CrimeMonth_ErrorEndsLoop(kind) ==
    LET month_crimes == CrimesForDate(kind, MonthOf(cr_call.today, Len(cr_reqs)))
    IN  /\ cr_call.fn = "get_crime_data"
        /\ MonthTurn(kind)
        /\ IF IsMonthError(month_crimes)
           THEN cr_pc' = "done" /\ cr_ret' = month_crimes /\ UNCHANGED cr_acc
           ELSE IF month_crimes.value.t = "null"
           THEN cr_pc' = "done" /\ cr_ret' = Raised("TypeError") /\ UNCHANGED cr_acc
           ELSE cr_acc' = cr_acc \o month_crimes.value.items /\ UNCHANGED <<cr_pc, cr_ret>>
        /\ UNCHANGED cr_call
        /\ UNCHANGED crOthers

\* a turn of get_crime_data: all_crimes.extend(month_crimes) unless the value
\* is an error dict; extend(None) raises TypeError
CrimeMonth(kind) ==
    LET month_crimes == CrimesForDate(kind, MonthOf(cr_call.today, Len(cr_reqs)))
    IN  /\ cr_call.fn = "get_crime_data"
        /\ MonthTurn(kind)
        /\ IF IsMonthError(month_crimes)
           THEN UNCHANGED <<cr_pc, cr_acc, cr_ret>>
           ELSE IF month_crimes.value.t = "null"
           THEN cr_pc' = "done" /\ cr_ret' = Raised("TypeError") /\ UNCHANGED cr_acc
           ELSE cr_acc' = cr_acc \o month_crimes.value.items /\ UNCHANGED <<cr_pc, cr_ret>>
        /\ UNCHANGED cr_call
        /\ UNCHANGED crOthers

\* mutant: an errored month is entered with an empty list
MonthlyMonth_ErrorAsEmpty(kind) ==
    LET date_str == MonthOf(cr_call.today, Len(cr_reqs))
        crimes == CrimesForDate(kind, date_str)
    IN  /\ cr_call.fn = "get_last_year_monthly_data"
        /\ MonthTurn(kind)
        /\ cr_acc' = [d \in DOMAIN cr_acc \cup {date_str} |->
                         IF d = date_str
                         THEN IF IsMonthError(crimes) THEN CrimeList(<<>>) ELSE crimes.value
                         ELSE cr_acc[d]]
        /\ UNCHANGED <<cr_pc, cr_call, cr_ret>>
        /\ UNCHANGED crOthers

\* a turn of get_last_year_monthly_data: monthly_data[date_str] = crimes
\* unless the value is an error dict
MonthlyMonth(kind) ==
    LET date_str == MonthOf(cr_call.today, Len(cr_reqs))
        crimes == CrimesForDate(kind, date_str)
    IN  /\ cr_call.fn = "get_last_year_monthly_data"
        /\ MonthTurn(kind)
        /\ cr_acc' = IF IsMonthError(crimes) THEN cr_acc
                     ELSE [d \in DOMAIN cr_acc \cup {date_str} |->
                              IF d = date_str THEN crimes.value ELSE cr_acc[d]]
        /\ UNCHANGED <<cr_pc, cr_call, cr_ret>>
        /\ UNCHANGED crOthers

\* the loop is over: return all_crimes, or return monthly_data
MonthsDone ==
    /\ cr_pc = "called"
    /\ cr_call.date = Nothing
    /\ Len(cr_reqs) = Months
    /\ cr_pc' = "done"
    /\ cr_ret' = IF cr_call.fn = "get_crime_data"
                 THEN [tag |-> "list", items |-> cr_acc]
                 ELSE [tag |-> "dict", months |-> cr_acc]
    /\ UNCHANGED <<cr_call, cr_reqs, cr_answers, cr_acc>>
    /\ UNCHANGED crOthers

CrimeNext ==
    \/ \E kind \in AnswerKinds : SingleMonth(kind)
    \/ \E kind \in LoopAnswerKinds : CrimeMonth(kind)
    \/ \E kind \in LoopAnswerKinds : MonthlyMonth(kind)
    \/ MonthsDone

----------------------------------------------------------------------------
(* Claims about crime_service *)

\* the call loops over the months
Looping == cr_call.fn # "none" /\ cr_call.date = Nothing

\* the calendar month k - 1 months before today's, counted in months since year 0
MonthNumber(k) == cr_call.today.year * 12 + (cr_call.today.month - 1) - (k - 1)

\* the two digits read as a number
TwoDigits(mm) == 10 * mm[1] + mm[2]

\* the k-th request asks for year Y and month M
AsksFor(k, Y, M) ==
    cr_reqs[k].date.year = Y /\ Len(cr_reqs[k].date.mm) = 2 /\ TwoDigits(cr_reqs[k].date.mm) = M

Errored(kind) == kind \in {"status", "exception"}

RECURSIVE IncidentsUpTo(_)
\* the incidents of the months among the first k that answered with a list,
\* in the order of the requests
IncidentsUpTo(k) ==
    IF k = 0 THEN <<>>
    ELSE IF cr_answers[k] = "list"
         THEN Append(IncidentsUpTo(k - 1), [month |-> cr_reqs[k].date])
         ELSE IncidentsUpTo(k - 1)

\* C16: in get_crime_data without a date an errored month is requested once,
\* adds nothing and does not end the loop (no call ends on an errored month
\* before the 12th): what is accumulated is always the incidents of the months
\* that succeeded so far, in request order; the call never returns an error
\* value, and the list it returns is that of the succeeded months among all 12.
C16_ErroredMonthsAreSkipped ==
    (Looping /\ cr_call.fn = "get_crime_data") =>
        /\ Len(cr_answers) = Len(cr_reqs)
        /\ cr_acc = IncidentsUpTo(Len(cr_reqs))
        /\ \A k \in 1..Len(cr_reqs) :
               Errored(cr_answers[k]) =>
                   \A j \in 1..Len(cr_reqs) : j # k => cr_reqs[j].date # cr_reqs[k].date
        /\ (cr_pc = "done" /\ Len(cr_reqs) < 12) => ~Errored(Last(cr_answers))
        /\ cr_ret.tag # "error"
        /\ cr_ret.tag = "list" =>
               /\ Len(cr_reqs) = 12
               /\ cr_ret.items = IncidentsUpTo(12)
        /\ (cr_pc = "done" /\ \A k \in 1..Len(cr_reqs) : Errored(cr_answers[k])) =>
               cr_ret = [tag |-> "list", items |-> <<>>]

C16_Witness ==
    /\ cr_call.fn = "get_crime_data" /\ cr_call.date = Nothing
    /\ cr_ret.tag = "list"
    /\ Errored(cr_answers[1])
    /\ cr_answers[12] = "list"
    /\ Len(cr_ret.items) > 0

\* the value a month that did not error is entered with
OwnValue(k) ==
    CASE cr_answers[k] = "list" -> CrimeList(<<[month |-> cr_reqs[k].date]>>)
      [] cr_answers[k] = "empty" -> CrimeList(<<>>)
      [] cr_answers[k] = "null" -> JNull

\* C17: the keys of the mapping get_last_year_monthly_data returns are the
\* months, of the 12 requested, whose request did not error, each with its own
\* value; an errored month is not a key.
C17_ErroredMonthsAreOmitted ==
    (Looping /\ cr_call.fn = "get_last_year_monthly_data" /\ cr_pc = "done") =>
        /\ cr_ret.tag = "dict"
        /\ Len(cr_reqs) = 12
        /\ DOMAIN cr_ret.months
               = {cr_reqs[k].date : k \in {i \in 1..12 : ~Errored(cr_answers[i])}}
        /\ \A k \in 1..12 :
               IF Errored(cr_answers[k])
               THEN cr_reqs[k].date \notin DOMAIN cr_ret.months
               ELSE cr_ret.months[cr_reqs[k].date] = OwnValue(k)

C17_Witness ==
    /\ cr_call.fn = "get_last_year_monthly_data"
    /\ cr_ret.tag = "dict"
    /\ Errored(cr_answers[12])
    /\ cr_answers[1] = "empty"
    /\ Cardinality(DOMAIN cr_ret.months) \in 1..11

\* C18: every request carries a radius, which is the requested radius in miles
\* when that is at most 1 mile and 1 mile otherwise.
C18_RadiusAtMostOneMile ==
    \A k \in 1..Len(cr_reqs) :
        /\ "radius" \in DOMAIN cr_reqs[k]
        /\ cr_reqs[k].radius <= OneMile
        /\ cr_reqs[k].radius = IF cr_call.radius * KmToMiles <= OneMile
                               THEN cr_call.radius * KmToMiles
                               ELSE OneMile

C18_Witness ==
    /\ cr_call.fn = "get_crime_data" /\ cr_call.date # Nothing
    /\ cr_call.radius = 50
    /\ Len(cr_reqs) = 1
    /\ cr_reqs[1].radius = OneMile

----------------------------------------------------------------------------
(* Claims about all the aggregator functions *)

\* C20: whatever the provider answers, no aggregator function
\* (get_location_data, get_uk_house_price_index, get_crime_data,
\* get_last_year_monthly_data, get_flood_data) raises an exception to its
\* caller: each returns a success value or an error value.
C20_AggregatorsNeverRaise ==
    /\ loc_ret.tag # "raised"
    /\ pr_ret.tag # "raised"
    /\ cr_ret.tag # "raised"
    /\ fd_ret.tag # "raised"

----------------------------------------------------------------------------
(* Specifications *)

InitRequest == RequestStart /\ LocationOff /\ FloodRiskOff /\ FloodDataOff /\ PriceOff /\ CrimeOff /\ PipOff

SpecRequest == InitRequest /\ [][RequestNext]_vars

InitLocation == RequestOff /\ LocationInit /\ FloodRiskOff /\ FloodDataOff /\ PriceOff /\ CrimeOff /\ PipOff

SpecLocation == InitLocation /\ [][LocationNext]_vars

InitFloodRisk == RequestOff /\ LocationOff /\ FloodRiskInit /\ FloodDataOff /\ PriceOff /\ CrimeOff /\ PipOff

SpecFloodRisk == InitFloodRisk /\ [][FloodRiskNext]_vars

InitFloodData == RequestOff /\ LocationOff /\ FloodRiskOff /\ FloodDataInit /\ PriceOff /\ CrimeOff /\ PipOff

SpecFloodData == InitFloodData /\ [][FloodDataNext]_vars

InitPaging == RequestOff /\ LocationOff /\ FloodRiskOff /\ PagingInit /\ PriceOff /\ CrimeOff /\ PipOff

SpecPaging == InitPaging /\ [][PagingNext]_vars

\* the loop is sequential code and make_request returns after at most
\* max_retries attempts: a step that can be taken is taken
SpecPagingLive == InitPaging /\ [][PagingNext]_vars /\ WF_vars(PagingNext)

InitPrice == RequestOff /\ LocationOff /\ FloodRiskOff /\ FloodDataOff /\ PriceInit /\ CrimeOff /\ PipOff

SpecPrice == InitPrice /\ [][PriceNext]_vars

InitCrime ==
    RequestOff /\ LocationOff /\ FloodRiskOff /\ FloodDataOff /\ PriceOff /\ CrimeInit
        /\ PipOff

SpecCrime == InitCrime /\ [][CrimeNext]_vars

InitPip ==
    RequestOff /\ LocationOff /\ FloodRiskOff /\ FloodDataOff /\ PriceOff /\ CrimeOff
        /\ PipInit

SpecPip == InitPip /\ [][PipNext]_vars

====
